---- MODULE Spec2Model ----
(***************************************************************************)
(* libSDL2pp: the ownership discipline of the handle wrappers (Window,     *)
(* Renderer, Texture, Surface, Mixer and the two LockHandle classes) and   *)
(* the tiled blit Renderer::FillCopy, modelled from src/SDL2pp/*.hh.       *)
(***************************************************************************)
EXTENDS Integers, Sequences, FiniteSets, TLC

(***************************************************************************)
(* Bounds of the model.                                                    *)
(***************************************************************************)
\* largest width and height of the destination rectangle
MaxDst == 2
\* largest width and height of the source rectangle (the tile)
MaxTile == 2
\* largest absolute value of an offset component
MaxOff == 2
\* largest number of whole tiles an offset is shifted by when two calls are compared
MaxShift == 1

\* number of places a wrapper object can live in (variables, temporaries)
MaxObjs == 3
\* number of places a LockHandle object can live in
MaxLockObjs == 2
\* number of places a Mixer object can live in
MaxMixers == 2
\* number of native handles the toolkit hands out in one behaviour
MaxHandles == 2
\* number of successful native lock calls in one behaviour
MaxLocks == 2
\* number of successful Mix_OpenAudio calls in one behaviour
MaxOpens == 2
\* number of MusicHook objects SetMusicHook allocates in one behaviour
MaxHooks == 1

(***************************************************************************)
(* Program constants.                                                      *)
(***************************************************************************)
SDL_FLIP_HORIZONTAL == 1
SDL_FLIP_VERTICAL == 2

\* the null pointer
nullptr == 0

\* the greatest value of int
INT_MAX == 2147483647

VARIABLES
    cls,     \* the class whose instances this behaviour exercises
    res,     \* the Window / Renderer / Texture / Surface objects, by place
    tlock,   \* the Texture::LockHandle objects, by place
    slock,   \* the Surface::LockHandle objects, by place
    mixer,   \* the Mixer objects, by place
    sdl,     \* the state of the native toolkit: handles given out, calls received
    last,    \* the last operation on a wrapper: its operands before it ran and the
             \* native calls and member stores it made, in program order
    fc,      \* the FillCopy call: its arguments, locals and position
    copies,  \* the SDL_RenderCopy / SDL_RenderCopyEx calls issued so far
    err      \* the name carried by the Exception the last operation threw, "" if none

vars == <<cls, res, tlock, slock, mixer, sdl, last, fc, copies, err>>
\* the variables of the wrapper objects
wvars == <<cls, res, tlock, slock, mixer, sdl, last>>

(***************************************************************************)
(* Value types: SDL2pp::Rect, SDL2pp::Point, SDL2pp::Optional<Rect>.       *)
(***************************************************************************)
Rect(x, y, w, h) == [x |-> x, y |-> y, w |-> w, h |-> h]
Point(x, y) == [x |-> x, y |-> y]
NullOpt == [has |-> FALSE]
Some(r) == [has |-> TRUE, val |-> r]

\* C++ integer division: the quotient truncated towards zero
CDiv(a, b) ==
    IF (a >= 0) = (b > 0) THEN (IF a >= 0 THEN a ELSE -a) \div (IF b > 0 THEN b ELSE -b)
    ELSE -((IF a >= 0 THEN a ELSE -a) \div (IF b > 0 THEN b ELSE -b))

\* flip & mask, for a single-bit mask
FlipHas(flip, mask) == (flip \div mask) % 2 = 1

(***************************************************************************)
(* Renderer::FillCopy                                                      *)
(***************************************************************************)
\* NormStart without its second step: a start tile right of the origin stays there
NormStartNoRetreat(p, s) ==
    IF p + s <= 0 THEN p + CDiv(-p, s) * s ELSE p

\* NormStart moving the start tile by one tile only
NormStartOneTile(p, s) ==
    LET p1 == IF p + s <= 0 THEN p + s ELSE p
    IN  IF p1 > 0 THEN p1 - s ELSE p1

\* "ensure tile is leftmost and topmost", one axis: p is start_tile.x (or .y),
\* s is start_tile.w (or .h)
NormStart(p, s) ==
    LET p1 == IF p + s <= 0 THEN p + CDiv(-p, s) * s ELSE p
    IN  IF p1 > 0 THEN p1 - CDiv(p1 + s - 1, s) * s ELSE p1

\* the start tile after normalisation
StartTile(src, offset) ==
    Rect(NormStart(offset.x, src.w), NormStart(offset.y, src.h), src.w, src.h)

\* ClampAxis leaving the source origin where it is when the tile underflows
ClampAxisSourceStays(p, s, d, sp) ==
    LET underflow == -p
        se1 == IF underflow > 0 THEN s - underflow ELSE s
        do1 == IF underflow > 0 THEN p + underflow ELSE p
        de1 == IF underflow > 0 THEN s - underflow ELSE s
        overflow == do1 + de1 - d
    IN  [so |-> sp,
         se |-> IF overflow > 0 THEN se1 - overflow ELSE se1,
         dp |-> do1,
         de |-> IF overflow > 0 THEN de1 - overflow ELSE de1]

\* ClampAxis shrinking only the destination when the tile overflows
ClampAxisStretching(p, s, d, sp) ==
    LET underflow == -p
        so1 == IF underflow > 0 THEN sp + underflow ELSE sp
        se1 == IF underflow > 0 THEN s - underflow ELSE s
        do1 == IF underflow > 0 THEN p + underflow ELSE p
        de1 == IF underflow > 0 THEN s - underflow ELSE s
        overflow == do1 + de1 - d
    IN  [so |-> so1,
         se |-> se1,
         dp |-> do1,
         de |-> IF overflow > 0 THEN de1 - overflow ELSE de1]

\* one axis of "clamp with dstrect": the tile at position p with extent s, clipped
\* to [0, d); sp is the source origin on that axis. Returns source origin, source
\* extent, destination origin (relative) and destination extent.
ClampAxis(p, s, d, sp) ==
    LET underflow == -p
        so1 == IF underflow > 0 THEN sp + underflow ELSE sp
        se1 == IF underflow > 0 THEN s - underflow ELSE s
        do1 == IF underflow > 0 THEN p + underflow ELSE p
        de1 == IF underflow > 0 THEN s - underflow ELSE s
        overflow == do1 + de1 - d
    IN  [so |-> so1,
         se |-> IF overflow > 0 THEN se1 - overflow ELSE se1,
         dp |-> do1,
         de |-> IF overflow > 0 THEN de1 - overflow ELSE de1]

\* "mirror tile_src inside src to take flipping into account", one axis:
\* e is src.w (or .h), so and se the clamped tile_src origin and extent
MirrorAxis(e, so, se) == e - so - se

\* TileCopy making only the x coordinate of tile_dst absolute
TileCopyRowRelative(src, dst, x, y, flip) ==
    LET cx == ClampAxis(x, src.w, dst.w, src.x)
        cy == ClampAxis(y, src.h, dst.h, src.y)
        tile_dst == Rect(cx.dp + dst.x, cy.dp, cx.de, cy.de)
        tsx == IF flip # 0 /\ FlipHas(flip, SDL_FLIP_HORIZONTAL)
               THEN MirrorAxis(src.w, cx.so, cx.se) ELSE cx.so
        tsy == IF flip # 0 /\ FlipHas(flip, SDL_FLIP_VERTICAL)
               THEN MirrorAxis(src.h, cy.so, cy.se) ELSE cy.so
    IN  [fn |-> IF flip # 0 THEN "SDL_RenderCopyEx" ELSE "SDL_RenderCopy",
         srcrect |-> Rect(tsx, tsy, cx.se, cy.se),
         dstrect |-> tile_dst,
         flip |-> flip]

\* the body of the tile loop for the tile at (x, y): the Copy call it makes
TileCopy(src, dst, x, y, flip) ==
    LET cx == ClampAxis(x, src.w, dst.w, src.x)
        cy == ClampAxis(y, src.h, dst.h, src.y)
        tile_dst == Rect(cx.dp + dst.x, cy.dp + dst.y, cx.de, cy.de)
        tsx == IF flip # 0 /\ FlipHas(flip, SDL_FLIP_HORIZONTAL)
               THEN MirrorAxis(src.w, cx.so, cx.se) ELSE cx.so
        tsy == IF flip # 0 /\ FlipHas(flip, SDL_FLIP_VERTICAL)
               THEN MirrorAxis(src.h, cy.so, cy.se) ELSE cy.so
    IN  [fn |-> IF flip # 0 THEN "SDL_RenderCopyEx" ELSE "SDL_RenderCopy",
         srcrect |-> Rect(tsx, tsy, cx.se, cy.se),
         dstrect |-> tile_dst,
         flip |-> flip]

\* NextTile going down the columns first
NextTileColumnMajor(start_tile, dst, x, y) ==
    IF y + start_tile.h < dst.h THEN [more |-> TRUE, x |-> x, y |-> y + start_tile.h]
    ELSE IF x + start_tile.w < dst.w /\ start_tile.y < dst.h
         THEN [more |-> TRUE, x |-> x + start_tile.w, y |-> start_tile.y]
         ELSE [more |-> FALSE, x |-> x, y |-> y]

\* the loop control of "paint tile array": the position after the tile at (x, y),
\* or done when both loops have run out
NextTile(start_tile, dst, x, y) ==
    IF x + start_tile.w < dst.w THEN [more |-> TRUE, x |-> x + start_tile.w, y |-> y]
    ELSE IF y + start_tile.h < dst.h /\ start_tile.x < dst.w
         THEN [more |-> TRUE, x |-> start_tile.x, y |-> y + start_tile.h]
         ELSE [more |-> FALSE, x |-> x, y |-> y]

\* the first position of the tile loop, if it has one
FirstTile(start_tile, dst) ==
    [more |-> start_tile.y < dst.h /\ start_tile.x < dst.w,
     x |-> start_tile.x, y |-> start_tile.y]

\* the copies a FillCopy call issues from loop position pos on when no copy fails
RECURSIVE IssuedFrom(_, _, _, _, _)
IssuedFrom(src, dst, start_tile, flip, pos) ==
    IF ~pos.more THEN <<>>
    ELSE <<TileCopy(src, dst, pos.x, pos.y, flip)>>
         \o IssuedFrom(src, dst, start_tile, flip, NextTile(start_tile, dst, pos.x, pos.y))

\* the copies FillCopy(texture, src, dst, offset, flip) issues when no copy fails
Issued(src, dst, offset, flip) ==
    IssuedFrom(src, dst, StartTile(src, offset), flip, FirstTile(StartTile(src, offset), dst))

\* no FillCopy call in progress
FcIdle ==
    [pc |-> "idle", src |-> Rect(0, 0, 0, 0), dst |-> Rect(0, 0, 0, 0),
     offset |-> Point(0, 0), flip |-> 0, start_tile |-> Rect(0, 0, 0, 0),
     x |-> 0, y |-> 0, failed |-> 0]

\* the arguments a FillCopy call is made with, and what Texture::GetWidth/GetHeight
\* and Renderer::GetOutputWidth/GetOutputHeight report during the call (tex, out)
SrcArgs ==
    {[srcrect |-> NullOpt, tex |-> Point(tw, th)] : tw \in 1..MaxTile, th \in 1..MaxTile}
    \cup {[srcrect |-> Some(Rect(1, 2, tw, th)), tex |-> Point(tw + 1, th + 2)] :
              tw \in 1..MaxTile, th \in 1..MaxTile}
DstArgs ==
    {[dstrect |-> NullOpt, out |-> Point(dw, dh)] : dw \in 0..MaxDst, dh \in 0..MaxDst}
    \cup {[dstrect |-> Some(Rect(3, 5, dw, dh)), out |-> Point(dw + 3, dh + 5)] :
              dw \in {0, MaxDst}, dh \in {0, MaxDst}}
    \cup {[dstrect |-> Some(Rect(-INT_MAX - 1, INT_MAX - MaxDst, MaxDst, MaxDst)),
            out |-> Point(MaxDst, MaxDst)]}
Offsets == {Point(ox, oy) : ox \in -MaxOff..MaxOff, oy \in -MaxOff..MaxOff}
Flips == {0, SDL_FLIP_HORIZONTAL, SDL_FLIP_VERTICAL, SDL_FLIP_HORIZONTAL + SDL_FLIP_VERTICAL}
\* the native query that fails during "resolve rectangles", if one does
QueryFailures == {"", "SDL_QueryTexture", "SDL_GetRendererOutputSize"}

\* FillCopy up to the tile loop: resolve rectangles (Texture::GetWidth and
\* Renderer::GetOutputWidth throw when their query fails), normalise the start tile
FillCopyEnter(srcrect, dstrect, offset, flip, tex, out, qfail) ==
    /\ fc.pc = "idle"
    /\ qfail = "SDL_QueryTexture" => ~srcrect.has
    /\ qfail = "SDL_GetRendererOutputSize" => ~dstrect.has
    /\ copies' = <<>>
    /\ err' = qfail
    /\ IF qfail # ""
       THEN fc' = [fc EXCEPT !.pc = "thrown"]
       ELSE LET src == IF srcrect.has THEN srcrect.val ELSE Rect(0, 0, tex.x, tex.y)
                dst == IF dstrect.has THEN dstrect.val ELSE Rect(0, 0, out.x, out.y)
                start_tile == StartTile(src, offset)
                first == FirstTile(start_tile, dst)
            IN  fc' = [pc |-> IF first.more THEN "loop" ELSE "done",
                       src |-> src, dst |-> dst, offset |-> offset, flip |-> flip,
                       start_tile |-> start_tile, x |-> first.x, y |-> first.y,
                       failed |-> 0]
    /\ UNCHANGED wvars

\* FillCopyTile carrying on with the next tile after a failed copy
FillCopyTileBestEffort(ok) ==
    /\ fc.pc = "loop"
    /\ LET call == TileCopy(fc.src, fc.dst, fc.x, fc.y, fc.flip)
           nxt == NextTile(fc.start_tile, fc.dst, fc.x, fc.y)
       IN  /\ copies' = Append(copies, call)
           /\ fc' = [fc EXCEPT !.pc = IF nxt.more THEN "loop" ELSE "done",
                               !.x = nxt.x, !.y = nxt.y,
                               !.failed = IF ok \/ fc.failed # 0 THEN fc.failed
                                          ELSE Len(copies) + 1]
           /\ err' = IF ok THEN err ELSE call.fn
    /\ UNCHANGED wvars

\* one pass through the body of the tile loop: clamp, mirror, Copy. Copy throws
\* when the native call reports failure (ok = FALSE) and the exception leaves
\* FillCopy; fc.failed keeps the number of the call that failed.
FillCopyTile(ok) ==
    /\ fc.pc = "loop"
    /\ LET call == TileCopy(fc.src, fc.dst, fc.x, fc.y, fc.flip)
           nxt == NextTile(fc.start_tile, fc.dst, fc.x, fc.y)
       IN  /\ copies' = Append(copies, call)
           /\ IF ok
              THEN /\ fc' = [fc EXCEPT !.pc = IF nxt.more THEN "loop" ELSE "done",
                                       !.x = nxt.x, !.y = nxt.y]
                   /\ UNCHANGED err
              ELSE /\ fc' = [fc EXCEPT !.pc = "thrown",
                                       !.failed = IF fc.failed = 0 THEN Len(copies) + 1
                                                  ELSE fc.failed]
                   /\ err' = call.fn
    /\ UNCHANGED wvars

(***************************************************************************)
(* The start tile normalisation in the arithmetic of int (32 bits, signed)  *)
(***************************************************************************)
INT_MIN == -INT_MAX - 1

\* a + b leaves the range of int
AddOverflows(a, b) == (b > 0 /\ a > INT_MAX - b) \/ (b < 0 /\ a < INT_MIN - b)

\* a + b, a - b and -a as two's complement arithmetic gives them
WrapAdd(a, b) ==
    IF b > 0 /\ a > INT_MAX - b THEN (a + INT_MIN) + (b + INT_MIN)
    ELSE IF b < 0 /\ a < INT_MIN - b THEN (a - INT_MIN) + (b - INT_MIN)
    ELSE a + b
WrapNeg(a) == IF a = INT_MIN THEN INT_MIN ELSE -a
WrapSub(a, b) == IF b = INT_MIN THEN WrapAdd(WrapAdd(a, INT_MAX), 1) ELSE WrapAdd(a, -b)

\* a / s of C++ for s > 0 (truncated towards zero), for every a of int
IntDiv(a, s) ==
    IF a >= 0 \/ a % s = 0 THEN a \div s ELSE (a \div s) + 1

\* the value the normalisation has in unbounded integers: the one p - k * s
\* (k an integer) in (-s, 0]
NormValue(p, s) == IF p % s = 0 THEN 0 ELSE (p % s) - s

\* the ways a build treats a signed overflow, which is undefined: wrap around
\* (-fwrapv, and what the machine instructions do), trap (-ftrapv), or go on
\* with the unbounded value (the optimiser assumes there is no overflow)
Builds == {"wrap", "trap", "wide"}

\* "ensure tile is leftmost and topmost", one axis, in int: p is start_tile.x
\* (or .y), s is start_tile.w (or .h) > 0. overflow: some intermediate value
\* (p + s, -p, p + s - 1, p plus or minus the multiple of s) left the range.
NormStartInt(p, s, build) ==
    LET c1 == IF build = "wide" THEN p <= -s ELSE WrapAdd(p, s) <= 0
        m1 == IntDiv(WrapNeg(p), s) * s
        o1 == AddOverflows(p, s) \/ (c1 /\ (p = INT_MIN \/ AddOverflows(p, m1)))
        p1 == IF ~c1 THEN p
              ELSE IF build = "wide" THEN p - IntDiv(p, s) * s
              ELSE WrapAdd(p, m1)
        c2 == p1 > 0
        t2 == WrapAdd(WrapAdd(p1, s), -1)
        m2 == IntDiv(t2, s) * s
        o2 == c2 /\ (AddOverflows(p1, s) \/ m2 = INT_MIN \/ AddOverflows(p1, -m2))
        p2 == IF ~c2 THEN p1
              ELSE IF build = "wide" THEN NormValue(p1, s)
              ELSE WrapSub(p1, m2)
    IN  [overflow |-> o1 \/ o2, val |-> p2]

\* the offsets and tile sizes tried: small ones and those at the ends of int
IntOffsets == (-MaxOff..MaxOff) \cup {INT_MIN, INT_MIN + 1, INT_MAX - 1, INT_MAX}
IntTiles == (1..MaxTile) \cup {INT_MAX - 1, INT_MAX}

\* FillCopy from its entry to the tile loop (lines 351-367) for a tile of size
\* tw x th and the given offset, compiled by the given build
NormaliseStartTile(offset, tw, th, build) ==
    /\ fc.pc = "idle"
    /\ LET nx == NormStartInt(offset.x, tw, build)
           ny == NormStartInt(offset.y, th, build)
       IN  IF build = "trap" /\ (nx.overflow \/ ny.overflow)
           THEN /\ fc' = [pc |-> "trapped", src |-> Rect(0, 0, tw, th), offset |-> offset,
                          build |-> build, overflow |-> TRUE,
                          start_tile |-> Rect(offset.x, offset.y, tw, th)]
                /\ err' = "signed integer overflow"
           ELSE /\ fc' = [pc |-> "normalised", src |-> Rect(0, 0, tw, th), offset |-> offset,
                          build |-> build, overflow |-> nx.overflow \/ ny.overflow,
                          start_tile |-> Rect(nx.val, ny.val, tw, th)]
                /\ err' = ""
    /\ UNCHANGED copies
    /\ UNCHANGED wvars

\* the tile sizes, destination sizes and offsets the tile loop is run with in
\* int: small ones, tiles of 2^30 and a destination INT_MAX wide or high, so
\* that x += start_tile.w and y += start_tile.h pass the end of int, and tiles
\* INT_MAX wide or high, so that start_tile.x + start_tile.w does
TWO_POW_30 == 1073741824
LoopTiles == (1..MaxTile) \cup {TWO_POW_30, INT_MAX}
LoopDsts == (0..MaxDst) \cup {INT_MAX}
LoopOffsets == -MaxOff..MaxOff
\* the copy calls of one FillCopy call are counted up to this number: one more
\* than a destination of LoopDsts holds tiles of LoopTiles
MaxCounted == (MaxDst + 2) * (MaxDst + 2) + 1

\* an addition in the body of the tile loop or in its loop control leaves int
\* for the tile at p with extent s: -p (line 375 / 383) or p + s (lines 391, 397
\* and the increments of lines 370, 371)
TileOverflows(p, s) == p = INT_MIN \/ AddOverflows(p, s)

\* "for (...; x < dst.w; x += start_tile.w)" after the tile at p, in int: the
\* next position and whether the loop goes on. A build that goes on with the
\* unbounded value leaves the loop when p + s has passed INT_MAX.
StepInt(p, s, d, build) ==
    IF AddOverflows(p, s)
    THEN IF build = "wrap" THEN [more |-> WrapAdd(p, s) < d, at |-> WrapAdd(p, s)]
         ELSE [more |-> FALSE, at |-> p]
    ELSE [more |-> p + s < d, at |-> p + s]

\* "clamp with dstrect", one axis, in int: the extent tile_dst.w (and tile_src.w)
\* is left with for the tile at p with extent s in a destination of extent d.
\* Where an operation overflows, its value is the one two's complement gives;
\* the end result is also the unbounded one whenever that is an int.
ClampExtentInt(p, s, d) ==
    LET underflow == WrapNeg(p)
        e1 == IF underflow > 0 THEN WrapSub(s, underflow) ELSE s
        p1 == IF underflow > 0 THEN WrapAdd(p, underflow) ELSE p
        overflow == WrapSub(WrapAdd(p1, e1), d)
    IN  IF overflow > 0 THEN WrapSub(e1, overflow) ELSE e1

\* FillCopy in int from its entry to the first tile: width and height of the
\* tile tw x th, of the destination dw x dh, both rectangles at the origin
FillCopyEnterInt(offset, tw, th, dw, dh, build) ==
    /\ fc.pc = "idle"
    /\ LET nx == NormStartInt(offset.x, tw, build)
           ny == NormStartInt(offset.y, th, build)
           arg == [src |-> Rect(0, 0, tw, th), dst |-> Rect(0, 0, dw, dh),
                   offset |-> offset, build |-> build, n |-> 0, w |-> 0, h |-> 0]
       IN  IF build = "trap" /\ (nx.overflow \/ ny.overflow)
           THEN /\ fc' = arg @@ [pc |-> "trapped", overflow |-> TRUE,
                                 start_tile |-> Rect(offset.x, offset.y, tw, th),
                                 x |-> offset.x, y |-> offset.y]
                /\ err' = "signed integer overflow"
           ELSE /\ fc' = arg @@ [pc |-> IF ny.val < dh /\ nx.val < dw THEN "loop" ELSE "done",
                                 overflow |-> nx.overflow \/ ny.overflow,
                                 start_tile |-> Rect(nx.val, ny.val, tw, th),
                                 x |-> nx.val, y |-> ny.val]
                /\ err' = ""
    /\ UNCHANGED copies
    /\ UNCHANGED wvars

\* one pass through the body of the tile loop in int, the copy call returning:
\* the call is counted in fc.n, its width and height are kept in fc.w and fc.h,
\* then x (and at the end of a row y) moves on
FillCopyTileInt ==
    /\ fc.pc = "loop"
    /\ LET bodyOverflow == TileOverflows(fc.x, fc.src.w) \/ TileOverflows(fc.y, fc.src.h)
           nx == StepInt(fc.x, fc.src.w, fc.dst.w, fc.build)
           ny == StepInt(fc.y, fc.src.h, fc.dst.h, fc.build)
           counted == IF fc.n < MaxCounted THEN fc.n + 1 ELSE fc.n
           cw == ClampExtentInt(fc.x, fc.src.w, fc.dst.w)
           ch == ClampExtentInt(fc.y, fc.src.h, fc.dst.h)
       IN  IF fc.build = "trap" /\ bodyOverflow
           THEN /\ fc' = [fc EXCEPT !.pc = "trapped", !.overflow = TRUE]
                /\ err' = "signed integer overflow"
           ELSE /\ fc' = IF nx.more
                         THEN [fc EXCEPT !.n = counted, !.w = cw, !.h = ch, !.x = nx.at,
                                         !.overflow = @ \/ bodyOverflow]
                         ELSE [fc EXCEPT !.n = counted, !.w = cw, !.h = ch,
                                         !.x = fc.start_tile.x, !.y = ny.at,
                                         !.pc = IF ny.more THEN "loop" ELSE "done",
                                         !.overflow = @ \/ bodyOverflow]
                /\ UNCHANGED err
    /\ UNCHANGED copies
    /\ UNCHANGED wvars

(***************************************************************************)
(* Window, Renderer, Texture, Surface: one native handle each               *)
(***************************************************************************)
Objs == 1..MaxObjs
\* the places LockHandle objects and Mixer objects are put in
LockObjs == 1..MaxLockObjs
MixerObjs == 1..MaxMixers
Handles == 1..MaxHandles
ResClasses == {"Window", "Renderer", "Texture", "Surface"}

\* a behaviour exercises the objects of one class, or Textures together with the
\* LockHandles made from them (TextureAndLocks). The class of the objects in
\* res, and the class of the lock handles:
TextureAndLocks == "Texture and Texture::LockHandle"
WrapperClass == IF cls = TextureAndLocks THEN "Texture" ELSE cls
LockClass == IF cls = TextureAndLocks THEN "Texture::LockHandle" ELSE cls

\* the native calls that create the handle of a class; a Texture is made by
\* Renderer::createTexture, which wraps the handle with Texture(SDL_Texture*)
AcquireFns(c) ==
    CASE c = "Window" -> {"SDL_CreateWindow"}
      [] c = "Renderer" -> {"SDL_CreateRenderer"}
      [] c = "Texture" -> {"SDL_CreateTexture", "SDL_CreateTextureFromSurface"}
      [] c = "Surface" -> {"SDL_CreateRGBSurface", "SDL_CreateRGBSurfaceFrom"}
      [] OTHER -> {}

\* the native call that releases the handle of a class
ReleaseFn(c) ==
    CASE c = "Window" -> "SDL_DestroyWindow"
      [] c = "Renderer" -> "SDL_DestroyRenderer"
      [] c = "Texture" -> "SDL_DestroyTexture"
      [] c = "Surface" -> "SDL_FreeSurface"
      [] OTHER -> ""

\* a place that holds no object, and an object holding handle h
NoObj == [live |-> FALSE, h |-> nullptr]
Holding(h) == [live |-> TRUE, h |-> h]

\* an entry of last.trace: a native call with its argument and whether it
\* succeeded, or (call = "=") the store of v into the handle member of this
Call(fn, arg, ok) == [call |-> fn, arg |-> arg, ok |-> ok]
Store(v) == [call |-> "=", arg |-> v, ok |-> TRUE]

Op(name, dst, src, preDst, preSrc, trace) ==
    [op |-> name, dst |-> dst, src |-> src, preDst |-> preDst, preSrc |-> preSrc,
     trace |-> trace]

\* the native release of handle h is called
Released(h) == [sdl EXCEPT !.released[h] = @ + 1]

\* ResConstruct keeping the nullptr of a failed native call instead of throwing
ResConstructUnchecked(s, fn, ok) ==
    /\ WrapperClass \in ResClasses
    /\ ~res[s].live
    /\ fn \in AcquireFns(WrapperClass)
    /\ ok => sdl.allocated < MaxHandles
    /\ IF ok
       THEN /\ res' = [res EXCEPT ![s] = Holding(sdl.allocated + 1)]
            /\ sdl' = [sdl EXCEPT !.allocated = @ + 1]
            /\ last' = Op("construct", s, 0, res[s], NoObj,
                          <<Call(fn, nullptr, TRUE), Store(sdl.allocated + 1)>>)
       ELSE /\ res' = [res EXCEPT ![s] = Holding(nullptr)]
            /\ last' = Op("construct", s, 0, res[s], NoObj,
                          <<Call(fn, nullptr, FALSE), Store(nullptr)>>)
            /\ UNCHANGED sdl
    /\ err' = ""
    /\ UNCHANGED <<cls, tlock, slock, mixer, fc, copies>>

\* constructor that acquires: the native call fn returns a fresh handle, or
\* nullptr (ok = FALSE) and the constructor throws Exception(fn)
ResConstruct(s, fn, ok) ==
    /\ WrapperClass \in ResClasses
    /\ ~res[s].live
    /\ fn \in AcquireFns(WrapperClass)
    /\ ok => sdl.allocated < MaxHandles
    /\ IF ok
       THEN /\ res' = [res EXCEPT ![s] = Holding(sdl.allocated + 1)]
            /\ sdl' = [sdl EXCEPT !.allocated = @ + 1]
            /\ err' = ""
            /\ last' = Op("construct", s, 0, res[s], NoObj,
                          <<Call(fn, nullptr, TRUE), Store(sdl.allocated + 1)>>)
       ELSE /\ err' = fn
            /\ last' = Op("construct", s, 0, res[s], NoObj, <<Call(fn, nullptr, FALSE)>>)
            /\ UNCHANGED <<res, sdl>>
    /\ UNCHANGED <<cls, tlock, slock, mixer, fc, copies>>

\* destructor: releases the handle unless it is nullptr
ResDestroy(s) ==
    /\ WrapperClass \in ResClasses
    /\ res[s].live
    /\ res' = [res EXCEPT ![s] = NoObj]
    /\ IF res[s].h # nullptr
       THEN /\ sdl' = Released(res[s].h)
            /\ last' = Op("destroy", s, 0, res[s], NoObj,
                          <<Call(ReleaseFn(WrapperClass), res[s].h, TRUE)>>)
       ELSE /\ last' = Op("destroy", s, 0, res[s], NoObj, <<>>)
            /\ UNCHANGED sdl
    /\ err' = ""
    /\ UNCHANGED <<cls, tlock, slock, mixer, fc, copies>>

\* ResMoveConstruct leaving other with its handle
ResMoveConstructCopying(s, o) ==
    /\ WrapperClass \in ResClasses
    /\ ~res[s].live
    /\ res[o].live
    /\ res' = [res EXCEPT ![s] = Holding(res[o].h)]
    /\ last' = Op("move_construct", s, o, res[s], res[o], <<Store(res[o].h)>>)
    /\ err' = ""
    /\ UNCHANGED <<cls, sdl, tlock, slock, mixer, fc, copies>>

\* move constructor: takes the handle of other and leaves other with nullptr
ResMoveConstruct(s, o) ==
    /\ WrapperClass \in ResClasses
    /\ ~res[s].live
    /\ res[o].live
    /\ res' = [res EXCEPT ![s] = Holding(res[o].h), ![o] = Holding(nullptr)]
    /\ last' = Op("move_construct", s, o, res[s], res[o],
                  <<Store(res[o].h)>>)
    /\ err' = ""
    /\ UNCHANGED <<cls, sdl, tlock, slock, mixer, fc, copies>>

\* ResMoveAssign leaving other with its handle
ResMoveAssignKeepingOther(s, o) ==
    /\ WrapperClass \in ResClasses
    /\ res[s].live
    /\ res[o].live
    /\ IF o = s
       THEN /\ last' = Op("move_assign", s, o, res[s], res[o], <<>>)
            /\ UNCHANGED <<res, sdl>>
       ELSE /\ res' = [res EXCEPT ![s] = Holding(res[o].h)]
            /\ IF res[s].h # nullptr
               THEN /\ sdl' = Released(res[s].h)
                    /\ last' = Op("move_assign", s, o, res[s], res[o],
                                  <<Call(ReleaseFn(WrapperClass), res[s].h, TRUE), Store(res[o].h)>>)
               ELSE /\ last' = Op("move_assign", s, o, res[s], res[o], <<Store(res[o].h)>>)
                    /\ UNCHANGED sdl
    /\ err' = ""
    /\ UNCHANGED <<cls, tlock, slock, mixer, fc, copies>>

\* ResMoveAssign overwriting the handle held without releasing it
ResMoveAssignLeaking(s, o) ==
    /\ WrapperClass \in ResClasses
    /\ res[s].live
    /\ res[o].live
    /\ IF o = s
       THEN /\ last' = Op("move_assign", s, o, res[s], res[o], <<>>)
            /\ UNCHANGED res
       ELSE /\ res' = [res EXCEPT ![s] = Holding(res[o].h), ![o] = Holding(nullptr)]
            /\ last' = Op("move_assign", s, o, res[s], res[o], <<Store(res[o].h)>>)
    /\ err' = ""
    /\ UNCHANGED <<cls, sdl, tlock, slock, mixer, fc, copies>>

\* ResMoveAssign taking the handle of other first and releasing afterwards
ResMoveAssignTakeFirst(s, o) ==
    /\ WrapperClass \in ResClasses
    /\ res[s].live
    /\ res[o].live
    /\ IF o = s
       THEN /\ last' = Op("move_assign", s, o, res[s], res[o], <<>>)
            /\ UNCHANGED <<res, sdl>>
       ELSE /\ res' = [res EXCEPT ![s] = Holding(res[o].h), ![o] = Holding(nullptr)]
            /\ IF res[o].h # nullptr
               THEN /\ sdl' = Released(res[o].h)
                    /\ last' = Op("move_assign", s, o, res[s], res[o],
                                  <<Store(res[o].h), Call(ReleaseFn(WrapperClass), res[o].h, TRUE)>>)
               ELSE /\ last' = Op("move_assign", s, o, res[s], res[o], <<Store(res[o].h)>>)
                    /\ UNCHANGED sdl
    /\ err' = ""
    /\ UNCHANGED <<cls, tlock, slock, mixer, fc, copies>>

\* move assignment: nothing when other is this; else releases the handle held,
\* takes the handle of other and leaves other with nullptr
ResMoveAssign(s, o) ==
    /\ WrapperClass \in ResClasses
    /\ res[s].live
    /\ res[o].live
    /\ IF o = s
       THEN /\ last' = Op("move_assign", s, o, res[s], res[o], <<>>)
            /\ UNCHANGED <<res, sdl>>
       ELSE /\ res' = [res EXCEPT ![s] = Holding(res[o].h), ![o] = Holding(nullptr)]
            /\ IF res[s].h # nullptr
               THEN /\ sdl' = Released(res[s].h)
                    /\ last' = Op("move_assign", s, o, res[s], res[o],
                                  <<Call(ReleaseFn(WrapperClass), res[s].h, TRUE), Store(res[o].h)>>)
               ELSE /\ last' = Op("move_assign", s, o, res[s], res[o], <<Store(res[o].h)>>)
                    /\ UNCHANGED sdl
    /\ err' = ""
    /\ UNCHANGED <<cls, tlock, slock, mixer, fc, copies>>

\* constructor from an existing handle: the caller passes nullptr (isnull) or a
\* handle it got from the native create call itself. assert(handle) aborts the
\* program on nullptr, unless the build defines NDEBUG (ndebug), where assert
\* expands to nothing and the object is constructed holding nullptr.
ResFromExisting(s, isnull, ndebug) ==
    /\ WrapperClass \in ResClasses
    /\ last.op # "abort"
    /\ ~res[s].live
    /\ ~isnull => sdl.allocated < MaxHandles
    /\ IF ~isnull
       THEN /\ res' = [res EXCEPT ![s] = Holding(sdl.allocated + 1)]
            /\ sdl' = [sdl EXCEPT !.allocated = @ + 1]
            /\ last' = Op("from_existing", s, 0, res[s], NoObj, <<Store(sdl.allocated + 1)>>)
            /\ err' = ""
       ELSE IF ndebug
       THEN /\ res' = [res EXCEPT ![s] = Holding(nullptr)]
            /\ last' = Op("from_existing", s, 0, res[s], NoObj, <<Store(nullptr)>>)
            /\ err' = ""
            /\ UNCHANGED sdl
       ELSE /\ last' = Op("abort", s, 0, res[s], NoObj, <<Store(nullptr)>>)
            /\ err' = "assert"
            /\ UNCHANGED <<res, sdl>>
    /\ UNCHANGED <<cls, tlock, slock, mixer, fc, copies>>

(***************************************************************************)
(* Texture::LockHandle: texture_ points to the Texture locked               *)
(***************************************************************************)
\* a place that holds no lock handle, and the no-op lock
NoTexLock == [live |-> FALSE, texture_ |-> nullptr, pixels_ |-> nullptr, pitch_ |-> 0]
NoopTexLock == [live |-> TRUE, texture_ |-> nullptr, pixels_ |-> nullptr, pitch_ |-> 0]

\* the row lengths SDL_LockTexture reports
Pitches == {4, 8}

\* texture_->Get() and surface_->Get(): the handle the Texture or Surface at
\* place p holds now
Get(p) == res[p].h

\* the number of successful SDL_LockTexture / SDL_LockSurface calls so far
Locks ==
    LET upto[h \in 0..MaxHandles] == IF h = 0 THEN 0 ELSE upto[h - 1] + sdl.locked[h]
    IN  upto[MaxHandles]

\* the number of SDL_UnlockTexture / SDL_UnlockSurface calls so far
Unlocks ==
    LET upto[h \in 0..MaxHandles] == IF h = 0 THEN 0 ELSE upto[h - 1] + sdl.unlocked[h]
    IN  upto[MaxHandles]

\* SDL_UnlockTexture / SDL_UnlockSurface is called with handle h
Unlocked(h) == [sdl EXCEPT !.unlocked[h] = @ + 1]

\* Texture::Lock on the Texture at place p, the handle going to place s:
\* LockHandle(Texture*, rect) throws when SDL_LockTexture fails (ok = FALSE),
\* else keeps the pixels and pitch the call reports
TexLock(s, p, ok, pitch) ==
    /\ LockClass = "Texture::LockHandle"
    /\ ~tlock[s].live
    /\ res[p].live
    /\ ok => (Get(p) # nullptr /\ Locks < MaxLocks)
    /\ IF ok
       THEN /\ tlock' = [tlock EXCEPT ![s] = [live |-> TRUE, texture_ |-> p,
                                              pixels_ |-> Get(p), pitch_ |-> pitch]]
            /\ sdl' = [sdl EXCEPT !.locked[Get(p)] = @ + 1]
            /\ err' = ""
            /\ last' = Op("lock", s, 0, tlock[s], NoTexLock,
                          <<Call("SDL_LockTexture", Get(p), TRUE), Store(p)>>)
       ELSE /\ err' = "SDL_LockTexture"
            /\ last' = Op("lock", s, 0, tlock[s], NoTexLock,
                          <<Call("SDL_LockTexture", Get(p), FALSE)>>)
            /\ UNCHANGED <<tlock, sdl>>
    /\ UNCHANGED <<cls, res, slock, mixer, fc, copies>>

\* LockHandle(): the no-op lock
TexLockDefault(s) ==
    /\ LockClass = "Texture::LockHandle"
    /\ ~tlock[s].live
    /\ tlock' = [tlock EXCEPT ![s] = NoopTexLock]
    /\ last' = Op("default_construct", s, 0, tlock[s], NoTexLock, <<Store(nullptr)>>)
    /\ err' = ""
    /\ UNCHANGED <<cls, res, slock, mixer, sdl, fc, copies>>

\* ~LockHandle(): unlocks texture_->Get() unless texture_ is nullptr
TexLockDestroy(s) ==
    /\ LockClass = "Texture::LockHandle"
    /\ tlock[s].live
    /\ tlock' = [tlock EXCEPT ![s] = NoTexLock]
    /\ IF tlock[s].texture_ # nullptr
       THEN /\ sdl' = Unlocked(Get(tlock[s].texture_))
            /\ last' = Op("destroy", s, 0, tlock[s], NoTexLock,
                          <<Call("SDL_UnlockTexture", Get(tlock[s].texture_), TRUE)>>)
       ELSE /\ last' = Op("destroy", s, 0, tlock[s], NoTexLock, <<>>)
            /\ UNCHANGED sdl
    /\ err' = ""
    /\ UNCHANGED <<cls, res, slock, mixer, fc, copies>>

\* TexLockMoveConstruct leaving other with its members
TexLockMoveConstructKeeping(s, o) ==
    /\ LockClass = "Texture::LockHandle"
    /\ ~tlock[s].live
    /\ tlock[o].live
    /\ tlock' = [tlock EXCEPT ![s] = tlock[o]]
    /\ last' = Op("move_construct", s, o, tlock[s], tlock[o], <<Store(tlock[o].texture_)>>)
    /\ err' = ""
    /\ UNCHANGED <<cls, res, slock, mixer, sdl, fc, copies>>

\* LockHandle(LockHandle&&): takes texture_, pixels_ and pitch_ of other and
\* leaves other a no-op lock
TexLockMoveConstruct(s, o) ==
    /\ LockClass = "Texture::LockHandle"
    /\ ~tlock[s].live
    /\ tlock[o].live
    /\ tlock' = [tlock EXCEPT ![s] = tlock[o], ![o] = NoopTexLock]
    /\ last' = Op("move_construct", s, o, tlock[s], tlock[o], <<Store(tlock[o].texture_)>>)
    /\ err' = ""
    /\ UNCHANGED <<cls, res, slock, mixer, sdl, fc, copies>>

\* LockHandle::operator=(LockHandle&&): nothing when other is this; else unlocks
\* texture_->Get() unless texture_ is nullptr, takes the members of other and
\* leaves other a no-op lock
TexLockMoveAssign(s, o) ==
    /\ LockClass = "Texture::LockHandle"
    /\ tlock[s].live
    /\ tlock[o].live
    /\ IF o = s
       THEN /\ last' = Op("move_assign", s, o, tlock[s], tlock[o], <<>>)
            /\ UNCHANGED <<tlock, sdl>>
       ELSE /\ tlock' = [tlock EXCEPT ![s] = tlock[o], ![o] = NoopTexLock]
            /\ IF tlock[s].texture_ # nullptr
               THEN /\ sdl' = Unlocked(Get(tlock[s].texture_))
                    /\ last' = Op("move_assign", s, o, tlock[s], tlock[o],
                                  <<Call("SDL_UnlockTexture", Get(tlock[s].texture_), TRUE),
                                    Store(tlock[o].texture_)>>)
               ELSE /\ last' = Op("move_assign", s, o, tlock[s], tlock[o],
                                  <<Store(tlock[o].texture_)>>)
                    /\ UNCHANGED sdl
    /\ err' = ""
    /\ UNCHANGED <<cls, res, slock, mixer, fc, copies>>

(***************************************************************************)
(* Surface::LockHandle: surface_ points to the Surface locked               *)
(***************************************************************************)
NoSurfLock == [live |-> FALSE, surface_ |-> nullptr]
NoopSurfLock == [live |-> TRUE, surface_ |-> nullptr]

\* SDL_MUSTLOCK(surface_->Get()) for the Surface at place p
SDL_MUSTLOCK(p) == sdl.mustlock[Get(p)]

\* Surface::Lock on the Surface at place p, the handle going to place s:
\* LockHandle(Surface*) calls SDL_LockSurface only when the surface must be
\* locked, and throws when the call fails (ok = FALSE)
SurfLock(s, p, ok) ==
    /\ cls = "Surface::LockHandle"
    /\ ~slock[s].live
    /\ res[p].live /\ Get(p) # nullptr
    /\ ~SDL_MUSTLOCK(p) => ok
    /\ (ok /\ SDL_MUSTLOCK(p)) => Locks < MaxLocks
    /\ IF ok
       THEN /\ slock' = [slock EXCEPT ![s] = [live |-> TRUE, surface_ |-> p]]
            /\ err' = ""
            /\ IF SDL_MUSTLOCK(p)
               THEN /\ sdl' = [sdl EXCEPT !.locked[Get(p)] = @ + 1]
                    /\ last' = Op("lock", s, 0, slock[s], NoSurfLock,
                                  <<Call("SDL_LockSurface", Get(p), TRUE), Store(p)>>)
               ELSE /\ last' = Op("lock", s, 0, slock[s], NoSurfLock, <<Store(p)>>)
                    /\ UNCHANGED sdl
       ELSE /\ err' = "SDL_LockSurface"
            /\ last' = Op("lock", s, 0, slock[s], NoSurfLock,
                          <<Call("SDL_LockSurface", Get(p), FALSE)>>)
            /\ UNCHANGED <<slock, sdl>>
    /\ UNCHANGED <<cls, res, tlock, mixer, fc, copies>>

\* LockHandle(): the no-op lock
SurfLockDefault(s) ==
    /\ cls = "Surface::LockHandle"
    /\ ~slock[s].live
    /\ slock' = [slock EXCEPT ![s] = NoopSurfLock]
    /\ last' = Op("default_construct", s, 0, slock[s], NoSurfLock, <<Store(nullptr)>>)
    /\ err' = ""
    /\ UNCHANGED <<cls, res, tlock, mixer, sdl, fc, copies>>

\* the unlock both ~LockHandle() and operator= make for the handle at place s
SurfUnlockCalls(s) ==
    IF slock[s].surface_ # nullptr /\ SDL_MUSTLOCK(slock[s].surface_)
    THEN <<Call("SDL_UnlockSurface", Get(slock[s].surface_), TRUE)>>
    ELSE <<>>

\* ~LockHandle(): unlocks surface_->Get() when surface_ is not nullptr and the
\* surface must be locked
SurfLockDestroy(s) ==
    /\ cls = "Surface::LockHandle"
    /\ slock[s].live
    /\ slock' = [slock EXCEPT ![s] = NoSurfLock]
    /\ sdl' = IF SurfUnlockCalls(s) # <<>> THEN Unlocked(Get(slock[s].surface_)) ELSE sdl
    /\ last' = Op("destroy", s, 0, slock[s], NoSurfLock, SurfUnlockCalls(s))
    /\ err' = ""
    /\ UNCHANGED <<cls, res, tlock, mixer, fc, copies>>

\* LockHandle(LockHandle&&): takes surface_ of other and leaves other a no-op lock
SurfLockMoveConstruct(s, o) ==
    /\ cls = "Surface::LockHandle"
    /\ ~slock[s].live
    /\ slock[o].live
    /\ slock' = [slock EXCEPT ![s] = slock[o], ![o] = NoopSurfLock]
    /\ last' = Op("move_construct", s, o, slock[s], slock[o], <<Store(slock[o].surface_)>>)
    /\ err' = ""
    /\ UNCHANGED <<cls, res, tlock, mixer, sdl, fc, copies>>

\* SurfLockMoveAssign without the test for other being this
SurfLockMoveAssignNoSelfTest(s, o) ==
    /\ cls = "Surface::LockHandle"
    /\ slock[s].live
    /\ slock[o].live
    /\ slock' = [slock EXCEPT ![s] = slock[o], ![o] = NoopSurfLock]
    /\ sdl' = IF SurfUnlockCalls(s) # <<>> THEN Unlocked(Get(slock[s].surface_)) ELSE sdl
    /\ last' = Op("move_assign", s, o, slock[s], slock[o],
                  SurfUnlockCalls(s) \o <<Store(slock[o].surface_)>>)
    /\ err' = ""
    /\ UNCHANGED <<cls, res, tlock, mixer, fc, copies>>

\* LockHandle::operator=(LockHandle&&): nothing when other is this; else unlocks
\* as the destructor does, takes surface_ of other and leaves other a no-op lock
SurfLockMoveAssign(s, o) ==
    /\ cls = "Surface::LockHandle"
    /\ slock[s].live
    /\ slock[o].live
    /\ IF o = s
       THEN /\ last' = Op("move_assign", s, o, slock[s], slock[o], <<>>)
            /\ UNCHANGED <<slock, sdl>>
       ELSE /\ slock' = [slock EXCEPT ![s] = slock[o], ![o] = NoopSurfLock]
            /\ sdl' = IF SurfUnlockCalls(s) # <<>> THEN Unlocked(Get(slock[s].surface_))
                      ELSE sdl
            /\ last' = Op("move_assign", s, o, slock[s], slock[o],
                          SurfUnlockCalls(s) \o <<Store(slock[o].surface_)>>)
    /\ err' = ""
    /\ UNCHANGED <<cls, res, tlock, mixer, fc, copies>>

\* Surface::SetRLE(flag) on the Surface at place p: throws "SDL_SetSurfaceRLE"
\* when the native call fails. SDL_MUSTLOCK tests the RLE flag of the native
\* surface; whether a successful call changes it at once is the toolkit's
\* choice (takes).
SetRLE(p, flag, ok, takes) ==
    /\ cls = "Surface::LockHandle"
    /\ res[p].live /\ Get(p) # nullptr
    /\ sdl' = IF ok /\ takes THEN [sdl EXCEPT !.mustlock[Get(p)] = flag] ELSE sdl
    /\ last' = Op("set_rle", p, 0, res[p], NoObj, <<Call("SDL_SetSurfaceRLE", Get(p), ok)>>)
    /\ err' = IF ok THEN "" ELSE "SDL_SetSurfaceRLE"
    /\ UNCHANGED <<cls, res, tlock, slock, mixer, fc, copies>>

(***************************************************************************)
(* Mixer: open_ and current_music_hook_                                     *)
(***************************************************************************)
NoMixer == [live |-> FALSE, open_ |-> FALSE, current_music_hook_ |-> nullptr]
ClosedMixer == [live |-> TRUE, open_ |-> FALSE, current_music_hook_ |-> nullptr]

\* the MusicHook object hk is deleted (by its unique_ptr), if there is one
Deleted(state, hk) ==
    IF hk = nullptr THEN state ELSE [state EXCEPT !.hooks_freed = @ \cup {hk}]
DeleteCalls(hk) == IF hk = nullptr THEN <<>> ELSE <<Call("delete", hk, TRUE)>>

\* Mixer(frequency, format, channels, chunksize): throws when Mix_OpenAudio fails
MixerConstruct(s, ok) ==
    /\ cls = "Mixer"
    /\ ~mixer[s].live
    /\ ok => sdl.opens < MaxOpens
    /\ IF ok
       THEN /\ mixer' = [mixer EXCEPT ![s] = [live |-> TRUE, open_ |-> TRUE,
                                              current_music_hook_ |-> nullptr]]
            /\ sdl' = [sdl EXCEPT !.opens = @ + 1]
            /\ err' = ""
            /\ last' = Op("construct", s, 0, mixer[s], NoMixer,
                          <<Store(TRUE), Call("Mix_OpenAudio", nullptr, TRUE)>>)
       ELSE /\ err' = "Mix_OpenAudio"
            /\ last' = Op("construct", s, 0, mixer[s], NoMixer,
                          <<Store(TRUE), Call("Mix_OpenAudio", nullptr, FALSE)>>)
            /\ UNCHANGED <<mixer, sdl>>
    /\ UNCHANGED <<cls, res, tlock, slock, fc, copies>>

\* ~Mixer(): Mix_CloseAudio when open_; then current_music_hook_ is destroyed
MixerDestroy(s) ==
    /\ cls = "Mixer"
    /\ mixer[s].live
    /\ mixer' = [mixer EXCEPT ![s] = NoMixer]
    /\ sdl' = Deleted(IF mixer[s].open_ THEN [sdl EXCEPT !.closes = @ + 1] ELSE sdl,
                      mixer[s].current_music_hook_)
    /\ last' = Op("destroy", s, 0, mixer[s], NoMixer,
                  (IF mixer[s].open_ THEN <<Call("Mix_CloseAudio", nullptr, TRUE)>> ELSE <<>>)
                  \o DeleteCalls(mixer[s].current_music_hook_))
    /\ err' = ""
    /\ UNCHANGED <<cls, res, tlock, slock, fc, copies>>

\* MixerMoveConstruct as a copy: other keeps open_ and its hook
MixerMoveConstructCopying(s, o) ==
    /\ cls = "Mixer"
    /\ ~mixer[s].live
    /\ mixer[o].live
    /\ mixer' = [mixer EXCEPT ![s] = mixer[o]]
    /\ last' = Op("move_construct", s, o, mixer[s], mixer[o], <<Store(mixer[o].open_)>>)
    /\ err' = ""
    /\ UNCHANGED <<cls, res, tlock, slock, sdl, fc, copies>>

\* MixerMoveConstruct leaving open_ of other as it is
MixerMoveConstructKeepingOpen(s, o) ==
    /\ cls = "Mixer"
    /\ ~mixer[s].live
    /\ mixer[o].live
    /\ mixer' = [mixer EXCEPT ![s] = mixer[o], ![o].current_music_hook_ = nullptr]
    /\ last' = Op("move_construct", s, o, mixer[s], mixer[o], <<Store(mixer[o].open_)>>)
    /\ err' = ""
    /\ UNCHANGED <<cls, res, tlock, slock, sdl, fc, copies>>

\* Mixer(Mixer&&): takes open_ and the hook of other, leaves other closed
MixerMoveConstruct(s, o) ==
    /\ cls = "Mixer"
    /\ ~mixer[s].live
    /\ mixer[o].live
    /\ mixer' = [mixer EXCEPT ![s] = mixer[o], ![o] = ClosedMixer]
    /\ last' = Op("move_construct", s, o, mixer[s], mixer[o], <<Store(mixer[o].open_)>>)
    /\ err' = ""
    /\ UNCHANGED <<cls, res, tlock, slock, sdl, fc, copies>>

\* Mixer::operator=(Mixer&&): nothing when other is this; else Mix_CloseAudio
\* when open_, takes open_ and the hook of other (the unique_ptr deletes the hook
\* held before) and leaves other closed
MixerMoveAssign(s, o) ==
    /\ cls = "Mixer"
    /\ mixer[s].live
    /\ mixer[o].live
    /\ IF o = s
       THEN /\ last' = Op("move_assign", s, o, mixer[s], mixer[o], <<>>)
            /\ UNCHANGED <<mixer, sdl>>
       ELSE /\ mixer' = [mixer EXCEPT ![s] = mixer[o], ![o] = ClosedMixer]
            /\ sdl' = Deleted(IF mixer[s].open_ THEN [sdl EXCEPT !.closes = @ + 1] ELSE sdl,
                              mixer[s].current_music_hook_)
            /\ last' = Op("move_assign", s, o, mixer[s], mixer[o],
                          (IF mixer[s].open_ THEN <<Call("Mix_CloseAudio", nullptr, TRUE)>>
                           ELSE <<>>)
                          \o <<Store(mixer[o].open_)>>
                          \o DeleteCalls(mixer[s].current_music_hook_))
    /\ err' = ""
    /\ UNCHANGED <<cls, res, tlock, slock, fc, copies>>

\* Mixer::SetMusicHook(hook): an empty hook unregisters and deletes the current
\* one; else a new MusicHook object replaces the current one (which is deleted)
\* and is registered with Mix_HookMusic
SetMusicHook(s, given) ==
    /\ cls = "Mixer"
    /\ mixer[s].live
    /\ given => sdl.hooks_made < MaxHooks
    /\ IF ~given
       THEN /\ mixer' = [mixer EXCEPT ![s].current_music_hook_ = nullptr]
            /\ sdl' = Deleted([sdl EXCEPT !.music_hook = nullptr],
                              mixer[s].current_music_hook_)
            /\ last' = Op("set_music_hook", s, 0, mixer[s], NoMixer,
                          <<Call("Mix_HookMusic", nullptr, TRUE)>>
                          \o DeleteCalls(mixer[s].current_music_hook_))
       ELSE /\ mixer' = [mixer EXCEPT ![s].current_music_hook_ = sdl.hooks_made + 1]
            /\ sdl' = Deleted([sdl EXCEPT !.hooks_made = @ + 1,
                                          !.music_hook = sdl.hooks_made + 1],
                              mixer[s].current_music_hook_)
            /\ last' = Op("set_music_hook", s, 0, mixer[s], NoMixer,
                          DeleteCalls(mixer[s].current_music_hook_)
                          \o <<Call("Mix_HookMusic", sdl.hooks_made + 1, TRUE)>>)
    /\ err' = ""
    /\ UNCHANGED <<cls, res, tlock, slock, fc, copies>>

\* SetMusicHook statement by statement, with the audio thread running between
\* the statements. A replaced hook needs a second MusicHook object.
MaxHookObjs == MaxHooks + 1
HookCall(pc, s, old) == [pc |-> pc, s |-> s, old |-> old]

\* the first statement of SetMusicHook: Mix_HookMusic(nullptr, nullptr) for an
\* empty hook, else current_music_hook_.reset(new MusicHook(...)), which deletes
\* the MusicHook held before
SetMusicHookBegin(s, given) ==
    /\ cls = "Mixer"
    /\ fc.pc = "idle"
    /\ mixer[s].live
    /\ given => sdl.hooks_made < MaxHookObjs
    /\ IF ~given
       THEN /\ sdl' = [sdl EXCEPT !.music_hook = nullptr]
            /\ fc' = HookCall("removing", s, mixer[s].current_music_hook_)
            /\ last' = Op("set_music_hook.Mix_HookMusic", s, 0, mixer[s], NoMixer,
                          <<Call("Mix_HookMusic", nullptr, TRUE)>>)
            /\ UNCHANGED mixer
       ELSE /\ mixer' = [mixer EXCEPT ![s].current_music_hook_ = sdl.hooks_made + 1]
            /\ sdl' = Deleted([sdl EXCEPT !.hooks_made = @ + 1],
                              mixer[s].current_music_hook_)
            /\ fc' = HookCall("replacing", s, mixer[s].current_music_hook_)
            /\ last' = Op("set_music_hook.reset", s, 0, mixer[s], NoMixer,
                          DeleteCalls(mixer[s].current_music_hook_))
    /\ err' = ""
    /\ UNCHANGED <<cls, res, tlock, slock, copies>>

\* the second statement: current_music_hook_.reset(nullptr) for an empty hook,
\* else Mix_HookMusic(lambda, current_music_hook_.get())
SetMusicHookEnd ==
    /\ cls = "Mixer"
    /\ fc.pc \in {"removing", "replacing"}
    /\ IF fc.pc = "removing"
       THEN /\ mixer' = [mixer EXCEPT ![fc.s].current_music_hook_ = nullptr]
            /\ sdl' = Deleted(sdl, mixer[fc.s].current_music_hook_)
            /\ last' = Op("set_music_hook.reset", fc.s, 0, mixer[fc.s], NoMixer,
                          DeleteCalls(mixer[fc.s].current_music_hook_))
       ELSE /\ sdl' = [sdl EXCEPT !.music_hook = mixer[fc.s].current_music_hook_]
            /\ last' = Op("set_music_hook.Mix_HookMusic", fc.s, 0, mixer[fc.s], NoMixer,
                          <<Call("Mix_HookMusic", mixer[fc.s].current_music_hook_, TRUE)>>)
            /\ UNCHANGED mixer
    /\ fc' = FcIdle
    /\ err' = ""
    /\ UNCHANGED <<cls, res, tlock, slock, copies>>

\* the audio thread, while the device is open, calls the registered lambda, which
\* calls operator() of the MusicHook its user data points to. Calling a deleted
\* MusicHook is undefined: it may go unnoticed or fail.
AudioCallback(fails) ==
    /\ cls = "Mixer"
    /\ sdl.opens > sdl.closes
    /\ sdl.music_hook # nullptr
    /\ fails => sdl.music_hook \in sdl.hooks_freed
    /\ last' = Op("callback", 0, 0, NoMixer, NoMixer,
                  <<Call("MusicHook::operator()", sdl.music_hook,
                         sdl.music_hook \notin sdl.hooks_freed)>>)
    /\ err' = IF fails THEN "undefined" ELSE ""
    /\ UNCHANGED <<cls, res, tlock, slock, mixer, sdl, fc, copies>>

(***************************************************************************)
(* Texture::Update(rect, surface)                                           *)
(***************************************************************************)
\* std::min
Min(a, b) == IF a < b THEN a ELSE b

\* the raw update: SDL_UpdateTexture(texture_, rect, pixels, pitch); pixels and
\* pitch are named by the handle of the surface they belong to
UpdateCall(rect, pixels, ok) ==
    [call |-> "SDL_UpdateTexture", arg |-> nullptr, ok |-> ok,
     rect |-> rect, pixels |-> pixels, pitch |-> pixels]

\* the pixel formats, the texture and surface sizes, and the rect arguments tried
Formats == {1, 2}
Sizes == {Point(w, h) : w \in 1..MaxTile, h \in 1..MaxTile}
RectArgs == {NullOpt} \cup {Some(Rect(1, 2, w, h)) : w \in 1..MaxDst, h \in 1..MaxDst}
\* the native call that fails during Update, if one does
UpdateFailures ==
    {"", "SDL_QueryTexture", "SDL_ConvertSurfaceFormat", "SDL_LockSurface", "SDL_UpdateTexture"}

\* Texture::Update(rect, surface) updating the rect as if the surface were never
\* smaller than it
TextureUpdateUnclamped(rect, tex, tfmt, surf, sfmt, convlock, fail) ==
    /\ cls = "Surface"
    /\ last.op = "none"
    /\ fail = "SDL_ConvertSurfaceFormat" => tfmt # sfmt
    /\ fail = "SDL_LockSurface" => IF tfmt = sfmt THEN SDL_MUSTLOCK(1) ELSE convlock
    /\ LET src == 1
           conv == sdl.allocated + 1
           real_rect == IF rect.has THEN rect.val ELSE Rect(0, 0, tex.x, tex.y)
           size == IF rect.has THEN <<>>
                   ELSE <<Call("SDL_QueryTexture", nullptr, fail # "SDL_QueryTexture")>>
                        \o (IF fail = "SDL_QueryTexture" THEN <<>>
                            ELSE <<Call("SDL_QueryTexture", nullptr, TRUE)>>)
           format == IF ~rect.has /\ fail = "SDL_QueryTexture" THEN <<>>
                     ELSE <<Call("SDL_QueryTexture", nullptr, fail # "SDL_QueryTexture")>>
           same == tfmt = sfmt
           used == IF same THEN src ELSE conv
           must == IF same THEN SDL_MUSTLOCK(src) ELSE convlock
           convert == IF same THEN <<>>
                      ELSE <<Call("SDL_ConvertSurfaceFormat", src,
                                  fail # "SDL_ConvertSurfaceFormat")>>
           lock == IF must THEN <<Call("SDL_LockSurface", used, fail # "SDL_LockSurface")>>
                   ELSE <<>>
           locked == must /\ fail # "SDL_LockSurface"
           update == <<UpdateCall(real_rect, used, fail # "SDL_UpdateTexture")>>
           unlock == IF locked THEN <<Call("SDL_UnlockSurface", used, TRUE)>> ELSE <<>>
           free == IF same THEN <<>> ELSE <<Call("SDL_FreeSurface", conv, TRUE)>>
           trace == IF fail = "SDL_QueryTexture" THEN size \o format
                    ELSE IF fail = "SDL_ConvertSurfaceFormat" THEN size \o format \o convert
                    ELSE IF fail = "SDL_LockSurface"
                         THEN size \o format \o convert \o lock \o free
                    ELSE size \o format \o convert \o lock \o update \o unlock \o free
           converted == ~same /\ fail \notin {"SDL_QueryTexture", "SDL_ConvertSurfaceFormat"}
           didlock == locked /\ fail # "SDL_QueryTexture"
                        /\ fail # "SDL_ConvertSurfaceFormat"
       IN  /\ last' = Op("update", 1, 0, [size |-> tex, format |-> tfmt],
                         [size |-> surf, format |-> sfmt, rect |-> rect], trace)
           /\ sdl' = [sdl EXCEPT
                        !.allocated = IF converted THEN conv ELSE @,
                        !.released = IF converted THEN [@ EXCEPT ![conv] = 1] ELSE @,
                        !.mustlock = IF converted THEN [@ EXCEPT ![conv] = convlock] ELSE @,
                        !.locked = IF didlock THEN [@ EXCEPT ![used] = @ + 1] ELSE @,
                        !.unlocked = IF didlock THEN [@ EXCEPT ![used] = @ + 1] ELSE @]
           /\ err' = fail
    /\ UNCHANGED <<cls, res, tlock, slock, mixer, fc, copies>>

\* Texture::Update(rect, surface) cleaning up on the normal return only: the lock
\* and the converted surface stay as they are when the raw update throws
TextureUpdateNoUnwind(rect, tex, tfmt, surf, sfmt, convlock, fail) ==
    /\ cls = "Surface"
    /\ last.op = "none"
    /\ fail = "SDL_ConvertSurfaceFormat" => tfmt # sfmt
    /\ fail = "SDL_LockSurface" => IF tfmt = sfmt THEN SDL_MUSTLOCK(1) ELSE convlock
    /\ LET src == 1
           conv == sdl.allocated + 1
           rect0 == IF rect.has THEN rect.val ELSE Rect(0, 0, tex.x, tex.y)
           real_rect == Rect(rect0.x, rect0.y, Min(rect0.w, surf.x), Min(rect0.h, surf.y))
           size == IF rect.has THEN <<>>
                   ELSE <<Call("SDL_QueryTexture", nullptr, fail # "SDL_QueryTexture")>>
                        \o (IF fail = "SDL_QueryTexture" THEN <<>>
                            ELSE <<Call("SDL_QueryTexture", nullptr, TRUE)>>)
           format == IF ~rect.has /\ fail = "SDL_QueryTexture" THEN <<>>
                     ELSE <<Call("SDL_QueryTexture", nullptr, fail # "SDL_QueryTexture")>>
           same == tfmt = sfmt
           used == IF same THEN src ELSE conv
           must == IF same THEN SDL_MUSTLOCK(src) ELSE convlock
           convert == IF same THEN <<>>
                      ELSE <<Call("SDL_ConvertSurfaceFormat", src,
                                  fail # "SDL_ConvertSurfaceFormat")>>
           lock == IF must THEN <<Call("SDL_LockSurface", used, fail # "SDL_LockSurface")>>
                   ELSE <<>>
           locked == must /\ fail # "SDL_LockSurface"
           update == <<UpdateCall(real_rect, used, fail # "SDL_UpdateTexture")>>
           unlock == IF locked THEN <<Call("SDL_UnlockSurface", used, TRUE)>> ELSE <<>>
           free == IF same THEN <<>> ELSE <<Call("SDL_FreeSurface", conv, TRUE)>>
           trace == IF fail = "SDL_QueryTexture" THEN size \o format
                    ELSE IF fail = "SDL_ConvertSurfaceFormat" THEN size \o format \o convert
                    ELSE IF fail = "SDL_LockSurface"
                         THEN size \o format \o convert \o lock \o free
                    ELSE IF fail = "SDL_UpdateTexture"
                         THEN size \o format \o convert \o lock \o update
                    ELSE size \o format \o convert \o lock \o update \o unlock \o free
           converted == ~same /\ fail \notin {"SDL_QueryTexture", "SDL_ConvertSurfaceFormat"}
           didlock == locked /\ fail # "SDL_QueryTexture"
                        /\ fail # "SDL_ConvertSurfaceFormat"
           unwound == fail # "SDL_UpdateTexture"
       IN  /\ last' = Op("update", 1, 0, [size |-> tex, format |-> tfmt],
                         [size |-> surf, format |-> sfmt, rect |-> rect], trace)
           /\ sdl' = [sdl EXCEPT
                        !.allocated = IF converted THEN conv ELSE @,
                        !.released = IF converted /\ unwound THEN [@ EXCEPT ![conv] = 1] ELSE @,
                        !.mustlock = IF converted THEN [@ EXCEPT ![conv] = convlock] ELSE @,
                        !.locked = IF didlock THEN [@ EXCEPT ![used] = @ + 1] ELSE @,
                        !.unlocked = IF didlock /\ unwound THEN [@ EXCEPT ![used] = @ + 1] ELSE @]
           /\ err' = fail
    /\ UNCHANGED <<cls, res, tlock, slock, mixer, fc, copies>>

\* Texture::Update(rect, surface), both overloads: the rect (the whole texture
\* when absent) is cut to the size of the surface; a surface of another format
\* than the texture is converted first; the surface used is locked for the raw
\* update. The converted Surface and the lock are locals, destroyed at return or
\* when an exception passes. The Surface updated from is the one at place 1.
TextureUpdate(rect, tex, tfmt, surf, sfmt, convlock, fail) ==
    /\ cls = "Surface"
    /\ last.op = "none"
    /\ fail = "SDL_ConvertSurfaceFormat" => tfmt # sfmt
    /\ fail = "SDL_LockSurface" => IF tfmt = sfmt THEN SDL_MUSTLOCK(1) ELSE convlock
    /\ LET src == 1
           conv == sdl.allocated + 1
           rect0 == IF rect.has THEN rect.val ELSE Rect(0, 0, tex.x, tex.y)
           real_rect == Rect(rect0.x, rect0.y, Min(rect0.w, surf.x), Min(rect0.h, surf.y))
           size == IF rect.has THEN <<>>
                   ELSE <<Call("SDL_QueryTexture", nullptr, fail # "SDL_QueryTexture")>>
                        \o (IF fail = "SDL_QueryTexture" THEN <<>>
                            ELSE <<Call("SDL_QueryTexture", nullptr, TRUE)>>)
           format == IF ~rect.has /\ fail = "SDL_QueryTexture" THEN <<>>
                     ELSE <<Call("SDL_QueryTexture", nullptr, fail # "SDL_QueryTexture")>>
           same == tfmt = sfmt
           used == IF same THEN src ELSE conv
           must == IF same THEN SDL_MUSTLOCK(src) ELSE convlock
           convert == IF same THEN <<>>
                      ELSE <<Call("SDL_ConvertSurfaceFormat", src,
                                  fail # "SDL_ConvertSurfaceFormat")>>
           lock == IF must THEN <<Call("SDL_LockSurface", used, fail # "SDL_LockSurface")>>
                   ELSE <<>>
           locked == must /\ fail # "SDL_LockSurface"
           update == <<UpdateCall(real_rect, used, fail # "SDL_UpdateTexture")>>
           unlock == IF locked THEN <<Call("SDL_UnlockSurface", used, TRUE)>> ELSE <<>>
           free == IF same THEN <<>> ELSE <<Call("SDL_FreeSurface", conv, TRUE)>>
           trace == IF fail = "SDL_QueryTexture" THEN size \o format
                    ELSE IF fail = "SDL_ConvertSurfaceFormat" THEN size \o format \o convert
                    ELSE IF fail = "SDL_LockSurface"
                         THEN size \o format \o convert \o lock \o free
                    ELSE size \o format \o convert \o lock \o update \o unlock \o free
           converted == ~same /\ fail \notin {"SDL_QueryTexture", "SDL_ConvertSurfaceFormat"}
           didlock == locked /\ fail # "SDL_QueryTexture"
                        /\ fail # "SDL_ConvertSurfaceFormat"
       IN  /\ last' = Op("update", 1, 0, [size |-> tex, format |-> tfmt],
                         [size |-> surf, format |-> sfmt, rect |-> rect], trace)
           /\ sdl' = [sdl EXCEPT
                        !.allocated = IF converted THEN conv ELSE @,
                        !.released = IF converted THEN [@ EXCEPT ![conv] = 1] ELSE @,
                        !.mustlock = IF converted THEN [@ EXCEPT ![conv] = convlock] ELSE @,
                        !.locked = IF didlock THEN [@ EXCEPT ![used] = @ + 1] ELSE @,
                        !.unlocked = IF didlock THEN [@ EXCEPT ![used] = @ + 1] ELSE @]
           /\ err' = fail
    /\ UNCHANGED <<cls, res, tlock, slock, mixer, fc, copies>>

(***************************************************************************)
(* The wrapper objects of one class                                         *)
(***************************************************************************)
LockClasses == {"Texture::LockHandle", "Surface::LockHandle"}
Classes == ResClasses \cup LockClasses \cup {"Mixer"}

\* the native toolkit before any call; the surfaces to be locked exist already
SdlInit ==
    [allocated |-> 0,
     released |-> [h \in 0..MaxHandles |-> 0],
     locked |-> [h \in 0..MaxHandles |-> 0],
     unlocked |-> [h \in 0..MaxHandles |-> 0],
     mustlock |-> [h \in 0..MaxHandles |-> FALSE],
     opens |-> 0,
     closes |-> 0,
     music_hook |-> nullptr,
     hooks_made |-> 0,
     hooks_freed |-> {}]

NoOp == Op("none", 0, 0, NoObj, NoObj, <<>>)

\* No object exists at first, except that the Textures and Surfaces to be locked
\* do: the one at place p holds handle p. The first ml Surfaces are of the kind
\* that must be locked (RLE encoded), the others are not.
Init ==
    /\ cls \in Classes
    /\ res = [s \in Objs |-> IF cls \in LockClasses /\ s \in Handles THEN Holding(s)
                             ELSE NoObj]
    /\ tlock = [s \in Objs |-> NoTexLock]
    /\ slock = [s \in Objs |-> NoSurfLock]
    /\ mixer = [s \in Objs |-> NoMixer]
    /\ \E ml \in 0..MaxHandles :
         /\ cls # "Surface::LockHandle" => ml = 0
         /\ sdl = [SdlInit EXCEPT
                     !.allocated = IF cls \in LockClasses THEN MaxHandles ELSE 0,
                     !.mustlock = [h \in 0..MaxHandles |-> h \in 1..ml]]
    /\ last = NoOp
    /\ fc = FcIdle
    /\ copies = <<>>
    /\ err = ""

Next ==
    \/ \E s \in Objs, fn \in AcquireFns(WrapperClass), ok \in BOOLEAN : ResConstruct(s, fn, ok)
    \/ \E s \in Objs : ResDestroy(s)
    \/ \E s, o \in Objs : ResMoveConstruct(s, o)
    \/ \E s, o \in Objs : ResMoveAssign(s, o)
    \/ \E s \in LockObjs, p \in Handles, ok \in BOOLEAN, pitch \in Pitches : TexLock(s, p, ok, pitch)
    \/ \E s \in LockObjs : TexLockDefault(s)
    \/ \E s \in LockObjs : TexLockDestroy(s)
    \/ \E s, o \in LockObjs : TexLockMoveConstruct(s, o)
    \/ \E s, o \in LockObjs : TexLockMoveAssign(s, o)
    \/ \E s \in LockObjs, p \in Handles, ok \in BOOLEAN : SurfLock(s, p, ok)
    \/ \E s \in LockObjs : SurfLockDefault(s)
    \/ \E s \in LockObjs : SurfLockDestroy(s)
    \/ \E s, o \in LockObjs : SurfLockMoveConstruct(s, o)
    \/ \E s, o \in LockObjs : SurfLockMoveAssign(s, o)
    \/ \E s \in MixerObjs, ok \in BOOLEAN : MixerConstruct(s, ok)
    \/ \E s \in MixerObjs : MixerDestroy(s)
    \/ \E s, o \in MixerObjs : MixerMoveConstruct(s, o)
    \/ \E s, o \in MixerObjs : MixerMoveAssign(s, o)
    \/ \E s \in MixerObjs, given \in BOOLEAN : SetMusicHook(s, given)

Spec == Init /\ [][Next]_vars

\* Window, Renderer, Texture or Surface objects made from existing handles as
\* well as by the acquiring constructors; nothing runs after assert has aborted
InitFromExisting == Init /\ cls \in ResClasses

NextFromExisting ==
    \/ \E s \in Objs, isnull \in BOOLEAN, ndebug \in BOOLEAN : ResFromExisting(s, isnull, ndebug)
    \/ /\ last.op # "abort"
       /\ \E s \in Objs, fn \in AcquireFns(WrapperClass), ok \in BOOLEAN : ResConstruct(s, fn, ok)
    \/ /\ last.op # "abort"
       /\ \E s \in Objs : ResDestroy(s)
    \/ /\ last.op # "abort"
       /\ \E s, o \in Objs : ResMoveConstruct(s, o)
    \/ /\ last.op # "abort"
       /\ \E s, o \in Objs : ResMoveAssign(s, o)

SpecFromExisting == InitFromExisting /\ [][NextFromExisting]_vars

\* Textures and the LockHandles made from them: the Texture at place p holds
\* handle p at first. The Textures are moved and assigned while locks are held;
\* a Texture is destroyed only when no LockHandle points to it.
InitTextureAndLocks ==
    /\ cls = TextureAndLocks
    /\ res = [s \in Objs |-> IF s \in Handles THEN Holding(s) ELSE NoObj]
    /\ tlock = [s \in Objs |-> NoTexLock]
    /\ slock = [s \in Objs |-> NoSurfLock]
    /\ mixer = [s \in Objs |-> NoMixer]
    /\ sdl = [SdlInit EXCEPT !.allocated = MaxHandles]
    /\ last = NoOp
    /\ fc = FcIdle
    /\ copies = <<>>
    /\ err = ""

NextTextureAndLocks ==
    \/ \E s, o \in Objs : ResMoveConstruct(s, o)
    \/ \E s, o \in Objs : ResMoveAssign(s, o)
    \/ \E s \in Objs :
         /\ \A l \in Objs : tlock[l].texture_ # s
         /\ ResDestroy(s)
    \/ \E s \in LockObjs, p \in Handles, ok \in BOOLEAN, pitch \in Pitches : TexLock(s, p, ok, pitch)
    \/ \E s \in LockObjs : TexLockDefault(s)
    \/ \E s \in LockObjs : TexLockDestroy(s)
    \/ \E s, o \in LockObjs : TexLockMoveConstruct(s, o)
    \/ \E s, o \in LockObjs : TexLockMoveAssign(s, o)

SpecTextureAndLocks == InitTextureAndLocks /\ [][NextTextureAndLocks]_vars

\* Surfaces whose RLE hint is set and cleared while LockHandles are made from
\* them, moved and destroyed; SetRLE is called until MaxLocks unlocks are passed
InitSurfaceRLE == Init /\ cls = "Surface::LockHandle"

NextSurfaceRLE ==
    \/ /\ Unlocks <= MaxLocks
       /\ \E p \in Handles, flag \in BOOLEAN, ok \in BOOLEAN, takes \in BOOLEAN :
            SetRLE(p, flag, ok, takes)
    \/ \E s \in LockObjs, p \in Handles, ok \in BOOLEAN : SurfLock(s, p, ok)
    \/ \E s \in LockObjs : SurfLockDefault(s)
    \/ \E s \in LockObjs : SurfLockDestroy(s)
    \/ \E s, o \in LockObjs : SurfLockMoveConstruct(s, o)
    \/ \E s, o \in LockObjs : SurfLockMoveAssign(s, o)

SpecSurfaceRLE == InitSurfaceRLE /\ [][NextSurfaceRLE]_vars

\* Mixers whose music hook is set, replaced and removed while the audio thread
\* runs; the thread using the Mixers does one thing at a time
InitMusicHook == Init /\ cls = "Mixer"

NextMusicHook ==
    \/ /\ fc.pc = "idle"
       /\ \E s \in MixerObjs, ok \in BOOLEAN : MixerConstruct(s, ok)
    \/ /\ fc.pc = "idle"
       /\ \E s \in MixerObjs : MixerDestroy(s)
    \/ /\ fc.pc = "idle"
       /\ \E s, o \in MixerObjs : MixerMoveConstruct(s, o)
    \/ \E s \in MixerObjs, given \in BOOLEAN : SetMusicHookBegin(s, given)
    \/ SetMusicHookEnd
    \/ \E fails \in BOOLEAN : AudioCallback(fails)

SpecMusicHook == InitMusicHook /\ [][NextMusicHook]_vars

\* a Renderer painting with FillCopy
InitFillCopy ==
    /\ cls = "Renderer"
    /\ res = [s \in Objs |-> NoObj]
    /\ tlock = [s \in Objs |-> NoTexLock]
    /\ slock = [s \in Objs |-> NoSurfLock]
    /\ mixer = [s \in Objs |-> NoMixer]
    /\ sdl = SdlInit
    /\ last = NoOp
    /\ fc = FcIdle
    /\ copies = <<>>
    /\ err = ""

NextFillCopy ==
    \/ /\ fc.pc = "idle"
       /\ \E sa \in SrcArgs, da \in DstArgs, offset \in Offsets, flip \in Flips,
             qfail \in QueryFailures :
            FillCopyEnter(sa.srcrect, da.dstrect, offset, flip, sa.tex, da.out, qfail)
    \/ \E ok \in BOOLEAN : FillCopyTile(ok)

SpecFillCopy == InitFillCopy /\ [][NextFillCopy]_vars

\* a Surface at place 1, of the kind that must be locked or not, and a Texture
\* to be updated from it
InitUpdate ==
    /\ cls = "Surface"
    /\ res = [s \in Objs |-> IF s = 1 THEN Holding(1) ELSE NoObj]
    /\ tlock = [s \in Objs |-> NoTexLock]
    /\ slock = [s \in Objs |-> NoSurfLock]
    /\ mixer = [s \in Objs |-> NoMixer]
    /\ \E ml \in BOOLEAN :
         sdl = [SdlInit EXCEPT !.allocated = 1, !.mustlock[1] = ml]
    /\ last = NoOp
    /\ fc = FcIdle
    /\ copies = <<>>
    /\ err = ""

NextUpdate ==
    /\ last.op = "none"
    /\ \E rect \in RectArgs, tex \in Sizes, tfmt \in Formats, surf \in Sizes,
          sfmt \in Formats, convlock \in BOOLEAN, fail \in UpdateFailures :
           TextureUpdate(rect, tex, tfmt, surf, sfmt, convlock, fail)

SpecUpdate == InitUpdate /\ [][NextUpdate]_vars

\* FillCopy called with offsets and tile sizes from the whole range of int
NextStartTile ==
    /\ fc.pc = "idle"
    /\ \E ox \in IntOffsets, oy \in IntOffsets, tw \in IntTiles, th \in IntTiles,
          build \in Builds :
           NormaliseStartTile(Point(ox, oy), tw, th, build)

SpecStartTile == InitFillCopy /\ [][NextStartTile]_vars

(***************************************************************************)
(* Properties of the wrapper objects                                        *)
(***************************************************************************)
\* the positions in the trace of the last operation of the calls of fn with arg
CallsOf(fn, arg) ==
    {i \in DOMAIN last.trace : last.trace[i].call = fn /\ last.trace[i].arg = arg}
\* the positions of the calls of fn, whatever the argument
CallsTo(fn) == {i \in DOMAIN last.trace : last.trace[i].call = fn}
\* the positions of the native calls that reported failure
FailedCalls == {i \in DOMAIN last.trace : ~last.trace[i].ok}
\* fn(arg) was called exactly once, and before the first store into a member
OnceBeforeTake(fn, arg) ==
    /\ Cardinality(CallsTo(fn)) = 1
    /\ Cardinality(CallsOf(fn, arg)) = 1
    /\ CallsTo("=") # {}
    /\ \A i \in CallsOf(fn, arg), j \in CallsTo("=") : i < j

\* C1: for Window, Renderer, Texture and Surface, the native release of a handle
\* given out is never called twice, and has been called exactly once when no
\* wrapper object is left.
C1_ReleasedExactlyOnce ==
    cls \in ResClasses =>
        \A h \in Handles :
            /\ sdl.released[h] <= 1
            /\ (h <= sdl.allocated /\ \A s \in Objs : ~res[s].live) => sdl.released[h] = 1

\* two handles were given out, moves took place, every object is destroyed, the
\* last one destroyed being a moved-from object
C1_Witness ==
    /\ cls = "Window"
    /\ sdl.allocated = 2
    /\ \A s \in Objs : ~res[s].live
    /\ last.op = "destroy" /\ last.preDst.h = nullptr
    /\ sdl.released[1] = 1 /\ sdl.released[2] = 1

\* C2: no two live wrapper objects hold the same handle, unless it is nullptr.
C2_SingleOwner ==
    cls \in ResClasses =>
        \A s, o \in Objs :
            (s # o /\ res[s].live /\ res[o].live /\ res[s].h = res[o].h)
                => res[s].h = nullptr

\* a Renderer was just move-constructed from one holding a handle, and a third
\* Renderer holds another handle
C2_Witness ==
    /\ cls = "Renderer"
    /\ last.op = "move_construct"
    /\ res[last.dst].h # nullptr
    /\ res[last.src].live /\ res[last.src].h = nullptr
    /\ \E s \in Objs : res[s].live /\ res[s].h \notin {nullptr, res[last.dst].h}

\* C6: after a move assignment b = move(a) between two distinct objects, what b
\* held has been released by exactly one native call made before b's members
\* were assigned (no such call when b held nothing), b holds what a held and a
\* is empty. For Window, Renderer, Texture, Surface, Mixer and both LockHandles.
C6_MoveAssignReleasesThenTakes ==
    (last.op = "move_assign" /\ last.dst # last.src) =>
        LET b == last.dst
            a == last.src
        IN  /\ cls \in ResClasses =>
                /\ IF last.preDst.h # nullptr
                   THEN /\ OnceBeforeTake(ReleaseFn(cls), last.preDst.h)
                        /\ sdl.released[last.preDst.h] = 1
                   ELSE CallsTo(ReleaseFn(cls)) = {}
                /\ res[b] = Holding(last.preSrc.h)
                /\ res[a] = Holding(nullptr)
            /\ cls = "Texture::LockHandle" =>
                /\ IF last.preDst.texture_ # nullptr
                   THEN OnceBeforeTake("SDL_UnlockTexture", Get(last.preDst.texture_))
                   ELSE CallsTo("SDL_UnlockTexture") = {}
                /\ tlock[b] = last.preSrc
                /\ tlock[a] = NoopTexLock
            /\ cls = "Surface::LockHandle" =>
                /\ IF last.preDst.surface_ # nullptr /\ SDL_MUSTLOCK(last.preDst.surface_)
                   THEN OnceBeforeTake("SDL_UnlockSurface", Get(last.preDst.surface_))
                   ELSE CallsTo("SDL_UnlockSurface") = {}
                /\ slock[b] = last.preSrc
                /\ slock[a] = NoopSurfLock
            /\ cls = "Mixer" =>
                /\ IF last.preDst.open_
                   THEN OnceBeforeTake("Mix_CloseAudio", nullptr)
                   ELSE CallsTo("Mix_CloseAudio") = {}
                /\ IF last.preDst.current_music_hook_ # nullptr
                   THEN /\ Cardinality(CallsTo("delete")) = 1
                        /\ Cardinality(CallsOf("delete", last.preDst.current_music_hook_)) = 1
                        /\ last.preDst.current_music_hook_ \in sdl.hooks_freed
                   ELSE CallsTo("delete") = {}
                /\ mixer[b] = last.preSrc
                /\ mixer[a] = ClosedMixer

\* a Texture::LockHandle holding a lock was just overwritten with another one
\* holding the lock of another texture
C6_Witness ==
    /\ cls = "Texture::LockHandle"
    /\ last.op = "move_assign" /\ last.dst # last.src
    /\ last.preDst.texture_ # nullptr
    /\ last.preSrc.texture_ \notin {nullptr, last.preDst.texture_}
    /\ sdl.unlocked[Get(last.preDst.texture_)] = 1

\* C7: a move assignment of an object to itself makes no native call and leaves
\* every object and the native toolkit as they were. For all seven classes.
C7_SelfMoveAssignIsNoop ==
    [][(last'.op = "move_assign" /\ last'.dst = last'.src) =>
          /\ last'.trace = <<>>
          /\ UNCHANGED <<res, tlock, slock, mixer, sdl>>]_vars

\* a Surface::LockHandle holding the lock of a surface that must be locked was
\* just move-assigned to itself
C7_Witness ==
    /\ cls = "Surface::LockHandle"
    /\ last.op = "move_assign" /\ last.dst = last.src
    /\ slock[last.dst].surface_ # nullptr
    /\ SDL_MUSTLOCK(slock[last.dst].surface_)
    /\ sdl.locked[Get(slock[last.dst].surface_)] = 1

\* C8: when the native acquire call of a constructor fails, the constructor throws
\* an Exception naming that call, no object exists at the place constructed and
\* the constructor makes no release call; no release is ever called with
\* nullptr, and Mix_CloseAudio is never called more often than Mix_OpenAudio
\* succeeded.
C8_FailedAcquireThrows ==
    /\ (last.op = "construct" /\ FailedCalls # {}) =>
          /\ \A i \in FailedCalls :
                /\ err = last.trace[i].call
                /\ i = Len(last.trace)
                /\ last.trace[i].call \in AcquireFns(cls) \cup {"Mix_OpenAudio"}
          /\ ~res[last.dst].live
          /\ ~mixer[last.dst].live
          /\ CallsTo(ReleaseFn(cls)) = {} /\ CallsTo("Mix_CloseAudio") = {}
    /\ sdl.released[nullptr] = 0
    /\ sdl.closes <= sdl.opens

\* SDL_CreateTextureFromSurface just failed while another Texture is alive
C8_Witness ==
    /\ cls = "Texture"
    /\ last.op = "construct"
    /\ err = "SDL_CreateTextureFromSurface"
    /\ ~res[last.dst].live
    /\ \E s \in Objs : res[s].live /\ res[s].h # nullptr

\* C9: Texture::LockHandle, the Textures staying where they are: the unlocks of a
\* texture never outnumber its successful locks, they are as many once no lock
\* handle is left, and no SDL_UnlockTexture is called by a default or move
\* construction, by a failed Lock, or when a no-op or moved-from handle is
\* destroyed or overwritten.
C9_LockUnlockBalanced ==
    cls = "Texture::LockHandle" =>
        /\ \A h \in 0..MaxHandles : sdl.unlocked[h] <= sdl.locked[h]
        /\ (\A s \in Objs : ~tlock[s].live) =>
              \A h \in 0..MaxHandles : sdl.unlocked[h] = sdl.locked[h]
        /\ last.op \in {"default_construct", "move_construct", "lock"} =>
              CallsTo("SDL_UnlockTexture") = {}
        /\ (last.op = "lock" /\ FailedCalls # {}) =>
              /\ ~tlock[last.dst].live
              /\ err = "SDL_LockTexture"
        /\ (last.op \in {"destroy", "move_assign"} /\ last.preDst.texture_ = nullptr) =>
              CallsTo("SDL_UnlockTexture") = {}

\* a texture was locked twice, the handles were moved, and every handle is
\* destroyed, the last one being a moved-from handle
C9_Witness ==
    /\ cls = "Texture::LockHandle"
    /\ sdl.locked[1] = 2 /\ sdl.unlocked[1] = 2
    /\ \A s \in Objs : ~tlock[s].live
    /\ last.op = "destroy" /\ last.preDst.texture_ = nullptr

\* tiles of extent t fill a destination of extent d with a few tiles
FewTiles(t, d) == d \div t <= MaxDst /\ (t = INT_MAX => d <= MaxDst)

\* FillCopy with sizes from the whole range of int, every copy call returning;
\* only calls whose rows and columns hold a few tiles. The loop goes on as long
\* as its condition holds.
NextTileLoop ==
    \/ /\ fc.pc = "idle"
       /\ \E ox \in LoopOffsets, oy \in LoopOffsets, tw \in LoopTiles, th \in LoopTiles,
             dw \in LoopDsts, dh \in LoopDsts, build \in Builds :
            /\ FewTiles(tw, dw)
            /\ FewTiles(th, dh)
            /\ FillCopyEnterInt(Point(ox, oy), tw, th, dw, dh, build)
    \/ FillCopyTileInt

SpecTileLoop == InitFillCopy /\ [][NextTileLoop]_vars /\ WF_vars(FillCopyTileInt)

(***************************************************************************)
(* Properties of Renderer::FillCopy                                        *)
(***************************************************************************)
\* the cells (pixels) of a rectangle
Cells(r) == {<<i, j>> : i \in r.x..(r.x + r.w - 1), j \in r.y..(r.y + r.h - 1)}

\* the destination rectangle of the i-th copy, relative to the origin of dst
RelDst(i) ==
    Rect(copies[i].dstrect.x - fc.dst.x, copies[i].dstrect.y - fc.dst.y,
         copies[i].dstrect.w, copies[i].dstrect.h)

\* C3: when FillCopy has returned for a destination of size W x H with W, H > 0
\* and a tile with tw, th > 0, the destination rectangles of the issued copies,
\* relative to the destination origin, are pairwise disjoint and their union is
\* exactly [0,W) x [0,H).
C3_ExactCover ==
    (fc.pc = "done" /\ fc.dst.w > 0 /\ fc.dst.h > 0) =>
        /\ \A i, j \in 1..Len(copies) : i < j => Cells(RelDst(i)) \cap Cells(RelDst(j)) = {}
        /\ UNION {Cells(RelDst(i)) : i \in 1..Len(copies)}
             = Cells(Rect(0, 0, fc.dst.w, fc.dst.h))

\* a 2x2 destination filled with 2x2 tiles at offset (1,-1): four copies, each
\* clipped to one cell
C3_Witness ==
    /\ fc.pc = "done"
    /\ fc.dst.w = 2 /\ fc.dst.h = 2 /\ fc.src.w = 2 /\ fc.src.h = 2
    /\ fc.offset = Point(1, -1)
    /\ Len(copies) = 4
    /\ \A i \in 1..4 : copies[i].dstrect.w = 1 /\ copies[i].dstrect.h = 1

\* C4: a finished FillCopy call issued exactly the sequence of copies (source and
\* destination rectangles) that the call with the offset moved by k tiles in x and
\* l tiles in y issues, for all k, l.
C4_OffsetPeriodic ==
    fc.pc = "done" =>
        \A k, l \in -MaxShift..MaxShift :
            Issued(fc.src, fc.dst,
                   Point(fc.offset.x + k * fc.src.w, fc.offset.y + l * fc.src.h),
                   fc.flip) = copies

\* a finished call with several copies whose offset lies more than a tile right of
\* and more than a tile above the destination origin
C4_Witness ==
    /\ fc.pc = "done"
    /\ fc.offset.x > fc.src.w
    /\ fc.offset.y < -fc.src.h
    /\ Len(copies) >= 4

\* C5: with horizontal flip set, the source rectangle of every issued copy is the
\* mirror image inside src of the source rectangle the same tile gets without
\* flip: same width, and flipped.x - src.x = src.w - (unflipped.x - src.x) -
\* unflipped.w; likewise on the y axis with vertical flip. For every src, also
\* one whose origin is not (0,0).
C5_FlipMirrorsInsideSrc ==
    fc.pc \in {"loop", "done"} =>
        \A i \in 1..Len(copies) :
            LET f == copies[i].srcrect
                u == Issued(fc.src, fc.dst, fc.offset, 0)[i].srcrect
            IN  /\ FlipHas(fc.flip, SDL_FLIP_HORIZONTAL) =>
                      /\ f.w = u.w
                      /\ f.x - fc.src.x = fc.src.w - (u.x - fc.src.x) - u.w
                /\ FlipHas(fc.flip, SDL_FLIP_VERTICAL) =>
                      /\ f.h = u.h
                      /\ f.y - fc.src.y = fc.src.h - (u.y - fc.src.y) - u.h

\* C10: once a per-tile copy has failed, FillCopy has thrown the failure of that
\* call, the failed call is the last one issued, and the calls issued are the
\* first n of the call sequence.
C10_AbortOnFirstFailure ==
    fc.failed # 0 =>
        /\ fc.pc = "thrown"
        /\ Len(copies) = fc.failed
        /\ err = copies[fc.failed].fn
        /\ copies = SubSeq(Issued(fc.src, fc.dst, fc.offset, fc.flip), 1, fc.failed)

\* the second of at least four copies failed
C10_Witness ==
    /\ fc.failed = 2
    /\ fc.pc = "thrown"
    /\ Len(Issued(fc.src, fc.dst, fc.offset, fc.flip)) >= 4

\* C11: every copy FillCopy issues has a source rectangle and a destination
\* rectangle of the same width and the same height.
C11_NeverStretches ==
    \A i \in 1..Len(copies) :
        /\ copies[i].srcrect.w = copies[i].dstrect.w
        /\ copies[i].srcrect.h = copies[i].dstrect.h

\* a finished call with both flips whose last copy is clipped on both axes
C11_Witness ==
    /\ fc.pc = "done"
    /\ fc.flip = SDL_FLIP_HORIZONTAL + SDL_FLIP_VERTICAL
    /\ Len(copies) >= 4
    /\ copies[Len(copies)].dstrect.w < fc.src.w
    /\ copies[Len(copies)].dstrect.h < fc.src.h
    /\ copies[Len(copies)].dstrect.w > 0

\* C12: for a destination of width >= 0 and height >= 0 and tiles of positive
\* size, no copy is issued whose source or destination rectangle has a width or
\* a height <= 0.
C12_SkipsClippedTiles ==
    (fc.dst.w >= 0 /\ fc.dst.h >= 0 /\ fc.src.w > 0 /\ fc.src.h > 0) =>
        \A i \in 1..Len(copies) :
            /\ copies[i].srcrect.w > 0 /\ copies[i].srcrect.h > 0
            /\ copies[i].dstrect.w > 0 /\ copies[i].dstrect.h > 0

\* C13: Mixer: Mix_CloseAudio has been called once for every successful
\* Mix_OpenAudio whose Mixer is gone and for no other: the opens not yet closed
\* are those of the Mixers with open_ set, so all are closed once every Mixer is
\* destroyed; the destructor of a moved-from Mixer does not call Mix_CloseAudio.
C13_MixerClosesOncePerOpen ==
    cls = "Mixer" =>
        /\ sdl.closes <= sdl.opens
        /\ Cardinality({s \in Objs : mixer[s].live /\ mixer[s].open_})
              = sdl.opens - sdl.closes
        /\ (\A s \in Objs : ~mixer[s].live) => sdl.closes = sdl.opens
        /\ (last.op = "destroy" /\ ~last.preDst.open_) => CallsTo("Mix_CloseAudio") = {}

\* two Mixers were opened, moves took place, every Mixer is destroyed, the last
\* one destroyed being a moved-from Mixer
C13_Witness ==
    /\ cls = "Mixer"
    /\ sdl.opens = 2 /\ sdl.closes = 2
    /\ \A s \in Objs : ~mixer[s].live
    /\ last.op = "destroy" /\ last.preDst.live /\ ~last.preDst.open_

\* C14: the constructor from an existing handle does not produce an object
\* holding nullptr (given nullptr it fails), and an object it produced releases
\* its handle exactly once when it is destroyed without having been moved from.
C14_FromExistingRejectsNull ==
    cls \in ResClasses =>
        /\ last.op = "from_existing" =>
              /\ res[last.dst].live
              /\ res[last.dst].h # nullptr
              /\ sdl.released[res[last.dst].h] = 0
        /\ (last.op = "destroy" /\ last.preDst.h # nullptr) =>
              /\ Cardinality(CallsOf(ReleaseFn(cls), last.preDst.h)) = 1
              /\ sdl.released[last.preDst.h] = 1

\* C15: no operation duplicates what a wrapper holds into a second wrapper (the
\* classes have no copy operations): in every step, the number of live objects
\* holding a given handle, lock, open audio device or music hook grows only
\* when the step acquired it anew from the toolkit (or allocated the hook).
C15_NoStepDuplicates ==
    [][/\ cls \in ResClasses =>
             \A h \in Handles :
                 Cardinality({s \in Objs : res'[s].live /\ res'[s].h = h})
                   > Cardinality({s \in Objs : res[s].live /\ res[s].h = h})
                 => (sdl.allocated = h - 1 /\ sdl'.allocated = h)
       /\ cls = "Texture::LockHandle" =>
             \A p \in Handles :
                 Cardinality({s \in Objs : tlock'[s].live /\ tlock'[s].texture_ = p})
                   > Cardinality({s \in Objs : tlock[s].live /\ tlock[s].texture_ = p})
                 => (last'.op = "lock" /\ sdl'.locked[Get(p)] = sdl.locked[Get(p)] + 1)
       /\ cls = "Surface::LockHandle" =>
             \A p \in Handles :
                 Cardinality({s \in Objs : slock'[s].live /\ slock'[s].surface_ = p})
                   > Cardinality({s \in Objs : slock[s].live /\ slock[s].surface_ = p})
                 => (last'.op = "lock"
                     /\ (SDL_MUSTLOCK(p) => sdl'.locked[Get(p)] = sdl.locked[Get(p)] + 1))
       /\ cls = "Mixer" =>
             /\ Cardinality({s \in Objs : mixer'[s].live /\ mixer'[s].open_})
                   > Cardinality({s \in Objs : mixer[s].live /\ mixer[s].open_})
                 => sdl'.opens = sdl.opens + 1
             /\ \A k \in 1..MaxHooks :
                   Cardinality({s \in Objs : mixer'[s].live
                                              /\ mixer'[s].current_music_hook_ = k})
                     > Cardinality({s \in Objs : mixer[s].live
                                                /\ mixer[s].current_music_hook_ = k})
                   => (sdl.hooks_made = k - 1 /\ sdl'.hooks_made = k)
      ]_vars

\* an open Mixer with a music hook was just move-constructed from another one
C15_Witness ==
    /\ cls = "Mixer"
    /\ last.op = "move_construct"
    /\ mixer[last.dst].open_
    /\ mixer[last.dst].current_music_hook_ # nullptr
    /\ mixer[last.src] = ClosedMixer

\* C16: for every offset and every tile size > 0 of int, no intermediate value
\* of the start tile normalisation leaves the range of int, and the normalised
\* start is the value the normalisation has in unbounded integers.
C16_NormalisationStaysInInt ==
    fc.pc \in {"normalised", "trapped"} =>
        /\ ~fc.overflow
        /\ fc.pc = "normalised"
        /\ fc.start_tile.x = NormValue(fc.offset.x, fc.src.w)
        /\ fc.start_tile.y = NormValue(fc.offset.y, fc.src.h)

\* C17: the rectangle Texture::Update(rect, surface) passes to the raw update has
\* the origin of rect ((0,0) when rect is absent) and the width and height of
\* rect (of the texture when rect is absent) cut to those of the surface; the
\* pixels passed are those of a converted copy of the surface when the formats
\* of surface and texture differ, else those of the surface itself.
C17_UpdateNeverScales ==
    last.op = "update" =>
        \A i \in CallsTo("SDL_UpdateTexture") :
            LET tex == last.preDst
                surf == last.preSrc
                rect == surf.rect
                rw == IF rect.has THEN rect.val.w ELSE tex.size.x
                rh == IF rect.has THEN rect.val.h ELSE tex.size.y
                call == last.trace[i]
            IN  /\ call.rect.x = (IF rect.has THEN rect.val.x ELSE 0)
                /\ call.rect.y = (IF rect.has THEN rect.val.y ELSE 0)
                /\ call.rect.w = Min(rw, surf.size.x)
                /\ call.rect.h = Min(rh, surf.size.y)
                /\ IF tex.format = surf.format
                   THEN call.pixels = Get(1) /\ CallsTo("SDL_ConvertSurfaceFormat") = {}
                   ELSE /\ call.pixels # Get(1)
                        /\ \E j \in CallsOf("SDL_ConvertSurfaceFormat", Get(1)) :
                              j < i /\ last.trace[j].ok
                        /\ sdl.allocated = call.pixels

\* an update of a given rect wider and higher than the surface, from a
\* surface of another format than the texture
C17_Witness ==
    /\ last.op = "update"
    /\ err = ""
    /\ last.preSrc.rect.has
    /\ last.preSrc.rect.val.w > last.preSrc.size.x
    /\ last.preSrc.rect.val.h > last.preSrc.size.y
    /\ last.preDst.format # last.preSrc.format
    /\ CallsTo("SDL_UpdateTexture") # {}

\* C18: when FillCopy without flip has returned, for a destination and a tile
\* of positive size, every destination pixel (dst.x + px, dst.y + py) is
\* painted by exactly one copy, and that copy takes it from the source pixel
\* (src.x + ((px - ox) mod tw), src.y + ((py - oy) mod th)).
C18_PixelFromTiledSource ==
    (fc.pc = "done" /\ fc.flip = 0 /\ fc.dst.w > 0 /\ fc.dst.h > 0) =>
        \A px \in 0..(fc.dst.w - 1), py \in 0..(fc.dst.h - 1) :
            LET painting == {i \in 1..Len(copies) :
                               <<fc.dst.x + px, fc.dst.y + py>> \in Cells(copies[i].dstrect)}
            IN  /\ Cardinality(painting) = 1
                /\ \A i \in painting :
                      /\ copies[i].srcrect.x + ((fc.dst.x + px) - copies[i].dstrect.x)
                            = fc.src.x + ((px - fc.offset.x) % fc.src.w)
                      /\ copies[i].srcrect.y + ((fc.dst.y + py) - copies[i].dstrect.y)
                            = fc.src.y + ((py - fc.offset.y) % fc.src.h)

\* a finished call without flip, with a source and a destination rectangle away
\* from the origin, whose first tile is cut on the left and at the top
C18_Witness ==
    /\ fc.pc = "done"
    /\ fc.flip = 0
    /\ fc.src.x # 0 /\ fc.dst.x # 0
    /\ fc.dst.w > 1 /\ fc.dst.h > 1
    /\ fc.start_tile.x < 0 /\ fc.start_tile.y < 0
    /\ Len(copies) >= 4

\* C19: for every offset (ox, oy) and tile size tw, th > 0 the normalised start
\* (sx, sy) satisfies -tw < sx <= 0, sx congruent to ox modulo tw, -th < sy <= 0
\* and sy congruent to oy modulo th.
C19_NormalisedStart ==
    fc.pc = "normalised" =>
        /\ -fc.src.w < fc.start_tile.x /\ fc.start_tile.x <= 0
        /\ fc.start_tile.x % fc.src.w = fc.offset.x % fc.src.w
        /\ -fc.src.h < fc.start_tile.y /\ fc.start_tile.y <= 0
        /\ fc.start_tile.y % fc.src.h = fc.offset.y % fc.src.h

\* the number of tile origins from the normalised start s up to, not including,
\* the extent d, in steps of t
TileCount(s, t, d) == IF s < d THEN (d - s + t - 1) \div t ELSE 0

\* the origin of the i-th tile in row-major order
TileOrigin(i) ==
    LET cols == TileCount(fc.start_tile.x, fc.src.w, fc.dst.w)
    IN  Point(fc.start_tile.x + ((i - 1) % cols) * fc.src.w,
              fc.start_tile.y + ((i - 1) \div cols) * fc.src.h)

\* C20: FillCopy issues its copies in row-major order of the tile origins: rows
\* by increasing y from the normalised start, stopping before dst.h, in each row
\* tiles by increasing x from the normalised start, stopping before dst.w. The
\* i-th copy is the one of the i-th tile, and for dst.w, dst.h > 0 the origins
\* (y, x) of the destination rectangles increase strictly, lexicographically.
C20_RowMajorOrder ==
    (fc.pc \in {"loop", "done", "thrown"} /\ fc.src.w > 0 /\ fc.src.h > 0) =>
        LET cols == TileCount(fc.start_tile.x, fc.src.w, fc.dst.w)
            rows == TileCount(fc.start_tile.y, fc.src.h, fc.dst.h)
        IN  /\ Len(copies) <= rows * cols
            /\ fc.pc = "done" => Len(copies) = rows * cols
            /\ fc.pc = "loop" => (Len(copies) < rows * cols
                                   /\ Point(fc.x, fc.y) = TileOrigin(Len(copies) + 1))
            /\ \A i \in 1..Len(copies) :
                  /\ copies[i].dstrect.x
                        = fc.dst.x + (IF TileOrigin(i).x > 0 THEN TileOrigin(i).x ELSE 0)
                  /\ copies[i].dstrect.y
                        = fc.dst.y + (IF TileOrigin(i).y > 0 THEN TileOrigin(i).y ELSE 0)
            /\ (fc.dst.w > 0 /\ fc.dst.h > 0) =>
                  \A i \in 1..(Len(copies) - 1) :
                      \/ copies[i].dstrect.y < copies[i + 1].dstrect.y
                      \/ /\ copies[i].dstrect.y = copies[i + 1].dstrect.y
                         /\ copies[i].dstrect.x < copies[i + 1].dstrect.x

\* a finished call into an explicit destination rectangle: two rows of two tiles
C20_Witness ==
    /\ fc.pc = "done"
    /\ fc.dst.x = 3
    /\ Len(copies) = 4
    /\ copies[1].dstrect.y = copies[2].dstrect.y
    /\ copies[2].dstrect.y < copies[3].dstrect.y
    /\ copies[3].dstrect.x < copies[2].dstrect.x

\* the call record c with its destination rectangle moved by (dx, dy)
Shifted(c, dx, dy) ==
    [c EXCEPT !.dstrect = Rect(c.dstrect.x + dx, c.dstrect.y + dy, c.dstrect.w, c.dstrect.h)]

\* C22: the copies FillCopy has issued for dst = (dx, dy, W, H) are, one by one
\* and in the same order, those the call with dst = (0, 0, W, H) issues, with
\* the same source rectangle and the destination rectangle moved by (dx, dy),
\* width and height unchanged; a finished call has issued as many.
C22_TranslationEquivariant ==
    fc.pc \in {"loop", "done"} =>
        LET base == Issued(fc.src, Rect(0, 0, fc.dst.w, fc.dst.h), fc.offset, fc.flip)
        IN  /\ Len(copies) <= Len(base)
            /\ fc.pc = "done" => Len(copies) = Len(base)
            /\ \A i \in 1..Len(copies) : copies[i] = Shifted(base[i], fc.dst.x, fc.dst.y)

\* a finished call with both flips into a destination rectangle whose corner is
\* at the least x and whose last row is the last one an int can name: four
\* copies or more, the last one below and right of the corner
C22_Witness ==
    /\ fc.pc = "done"
    /\ fc.dst.x = INT_MIN /\ fc.dst.y = INT_MAX - MaxDst
    /\ fc.flip = SDL_FLIP_HORIZONTAL + SDL_FLIP_VERTICAL
    /\ Len(copies) >= 4
    /\ copies[Len(copies)].dstrect.x > fc.dst.x
    /\ copies[Len(copies)].dstrect.y > fc.dst.y

\* the number of cells [o + k * t, o + (k + 1) * t), k an integer, that meet
\* [0, d), for t > 0 and d > 0
GridCount(o, t, d) ==
    LET s == NormValue(o, t)
    IN  IF s = 0 THEN 1 + ((d - 1) \div t)
        ELSE IF s + t >= d THEN 1
        ELSE 2 + ((d - 1 - (s + t)) \div t)

\* C21: FillCopy with tw, th > 0 whose copy calls all return comes to its end,
\* for every destination rectangle and every offset, and for dst.w, dst.h > 0
\* it has then issued as many copies as there are cells of the tile grid (pitch
\* tw x th, phase (ox, oy)) meeting [0, dst.w) x [0, dst.h).
C21_FillCopyTerminates ==
    /\ (fc.pc = "loop") ~> (fc.pc = "done")
    /\ []((fc.pc = "done" /\ fc.dst.w > 0 /\ fc.dst.h > 0) =>
             fc.n = GridCount(fc.offset.x, fc.src.w, fc.dst.w)
                      * GridCount(fc.offset.y, fc.src.h, fc.dst.h))

\* C23: for dst.w, dst.h, tw, th > 0, every offset, every flip and every source
\* rectangle src, also one away from the origin, the source rectangle of every
\* issued copy lies inside src.
C23_SourceInsideSrc ==
    (fc.pc \in {"loop", "done", "thrown"} /\ fc.dst.w > 0 /\ fc.dst.h > 0
       /\ fc.src.w > 0 /\ fc.src.h > 0) =>
        \A i \in 1..Len(copies) :
            /\ fc.src.x <= copies[i].srcrect.x
            /\ copies[i].srcrect.x + copies[i].srcrect.w <= fc.src.x + fc.src.w
            /\ fc.src.y <= copies[i].srcrect.y
            /\ copies[i].srcrect.y + copies[i].srcrect.h <= fc.src.y + fc.src.h

\* C24: when dst.w, dst.h, tw and th are > 0, for every offset every issued copy
\* has a width w with 1 <= w <= min(tw, dst.w) and a height h with
\* 1 <= h <= min(th, dst.h).
C24_CopyExtentBounds ==
    (fc.pc \in {"loop", "done"} /\ fc.n > 0 /\ fc.dst.w > 0 /\ fc.dst.h > 0) =>
        /\ 1 <= fc.w /\ fc.w <= fc.src.w /\ fc.w <= fc.dst.w
        /\ 1 <= fc.h /\ fc.h <= fc.src.h /\ fc.h <= fc.dst.h

\* the positions of the calls of fn on handle h that reported success
OkCallsOf(fn, h) == {i \in CallsOf(fn, h) : last.trace[i].ok}

\* C25: when Texture::Update(rect, surface) has returned or thrown, every native
\* surface lock it took has been unlocked (after it was taken); the converted
\* surface, if one was created, has been freed exactly once, after its unlock;
\* nothing else has been freed; the caller's surface is neither freed nor left
\* locked and its wrapper still holds it.
C25_UpdateReleasesOnAllPaths ==
    last.op = "update" =>
        LET conv == Get(1) + 1
            made == OkCallsOf("SDL_ConvertSurfaceFormat", Get(1)) # {}
        IN  /\ \A h \in {Get(1), conv} :
                  /\ Cardinality(CallsOf("SDL_UnlockSurface", h))
                        = Cardinality(OkCallsOf("SDL_LockSurface", h))
                  /\ \A u \in CallsOf("SDL_UnlockSurface", h) :
                        \E l \in OkCallsOf("SDL_LockSurface", h) : l < u
                  /\ sdl.locked[h] = sdl.unlocked[h]
                  /\ sdl.locked[h] = Cardinality(OkCallsOf("SDL_LockSurface", h))
            /\ Cardinality(CallsTo("SDL_FreeSurface")) = (IF made THEN 1 ELSE 0)
            /\ CallsTo("SDL_FreeSurface") = CallsOf("SDL_FreeSurface", conv)
            /\ made => /\ sdl.allocated = conv
                       /\ sdl.released[conv] = 1
                       /\ \A f \in CallsOf("SDL_FreeSurface", conv) :
                             /\ \A u \in CallsOf("SDL_UnlockSurface", conv) : u < f
                             /\ \A c \in OkCallsOf("SDL_ConvertSurfaceFormat", Get(1)) : c < f
            /\ sdl.released[Get(1)] = 0
            /\ res[1] = Holding(Get(1))

\* the raw update failed on a converted surface that had to be locked: the
\* exception passes the lock and the converted surface
C25_Witness ==
    /\ last.op = "update"
    /\ err = "SDL_UpdateTexture"
    /\ OkCallsOf("SDL_LockSurface", Get(1) + 1) # {}
    /\ CallsOf("SDL_FreeSurface", Get(1) + 1) # {}

\* C26: when a Texture::LockHandle that holds a lock is destroyed or overwritten
\* by move assignment, it makes one native unlock call, on the handle that was
\* locked when the lock was made (the one its pixels belong to), whatever was
\* done meanwhile to the Texture it was made from: moved from, assigned to,
\* assigned from.
C26_UnlocksTheLockedHandle ==
    (/\ LockClass = "Texture::LockHandle"
     /\ last.op \in {"destroy", "move_assign"}
     /\ last.dst # last.src
     /\ "texture_" \in DOMAIN last.preDst
     /\ last.preDst.texture_ # nullptr) =>
        /\ Cardinality(CallsTo("SDL_UnlockTexture")) = 1
        /\ CallsTo("SDL_UnlockTexture")
             = CallsOf("SDL_UnlockTexture", last.preDst.pixels_)

\* C27: for every surface, SDL_UnlockSurface has been called at most as often
\* as SDL_LockSurface has succeeded, and as often once no Surface::LockHandle
\* is left, also when SetRLE changes whether the surface must be locked while a
\* handle is held.
C27_UnlocksOnlyLocksTaken ==
    cls = "Surface::LockHandle" =>
        \A h \in Handles :
            /\ sdl.unlocked[h] <= sdl.locked[h]
            /\ (\A s \in Objs : ~slock[s].live) => sdl.unlocked[h] = sdl.locked[h]

\* C28: in every state reached by acquiring, move constructing, move assigning
\* and destroying Window, Renderer, Texture or Surface wrappers, the handle of
\* every live wrapper is nullptr or one the native release has not been called
\* for.
C28_NoLiveWrapperHoldsReleased ==
    cls \in ResClasses =>
        \A s \in Objs :
            (res[s].live /\ res[s].h # nullptr) => sdl.released[res[s].h] = 0

\* a move assignment has just released the handle its target held; the target
\* holds the handle taken, and a third wrapper is live and empty
C28_Witness ==
    /\ cls = "Surface"
    /\ last.op = "move_assign"
    /\ last.dst # last.src
    /\ last.preDst.h # nullptr
    /\ sdl.released[last.preDst.h] = 1
    /\ res[last.dst].h \notin {nullptr, last.preDst.h}
    /\ \E s \in Objs \ {last.dst, last.src} : res[s].live /\ res[s].h = nullptr

\* C29: while the audio device is open (Mix_OpenAudio has succeeded more often
\* than Mix_CloseAudio was called), the user data registered with the native
\* music hook is nullptr or a MusicHook object that has not been deleted and is
\* owned by a live Mixer.
C29_RegisteredHookIsOwned ==
    (cls = "Mixer" /\ sdl.opens > sdl.closes) =>
        \/ sdl.music_hook = nullptr
        \/ /\ sdl.music_hook \notin sdl.hooks_freed
           /\ \E s \in Objs : mixer[s].live /\ mixer[s].current_music_hook_ = sdl.music_hook

\* C30: SetMusicHook deletes the MusicHook installed before only when the native
\* music hook no longer refers to it, so an audio callback that runs between the
\* statements of SetMusicHook never calls the MusicHook that this SetMusicHook
\* replaces or removes after it was deleted.
C30_HookDeletedAfterUnregistered ==
    /\ [][\A hk \in 1..MaxHookObjs :
            (/\ cls = "Mixer"
             /\ last'.op = "set_music_hook.reset"
             /\ hk \notin sdl.hooks_freed
             /\ hk \in sdl'.hooks_freed) => sdl.music_hook # hk]_vars
    /\ [](cls = "Mixer" /\ fc.pc \in {"removing", "replacing"} /\ last.op = "callback"
            /\ last.trace[1].arg = fc.old
          => last.trace[1].ok)

====
